---- MODULE Spec2Model ----
(***************************************************************************)
(* Model of the invoice form (src/components/InvoiceForm.tsx), the GST and  *)
(* text helpers (src/lib/utils.ts) and the PDF pagination routine           *)
(* (src/lib/pdf-export.ts).                                                 *)
(*                                                                          *)
(* Texts typed into the form are sequences of one-character strings, so    *)
(* that parseInt / parseFloat and prefix extraction are computed, not      *)
(* assumed: <<>> is the empty string.  Numbers are integers; a JavaScript   *)
(* number that may carry a fraction is a pair <<num, den>> (den > 0) and    *)
(* NaN is the empty tuple <<>>.                                             *)
(***************************************************************************)
EXTENDS Integers, Sequences, FiniteSets, TLC

VARIABLES
    \* ---- form state (InvoiceFormData, useState at InvoiceForm.tsx:105) ----
    items,          \* formData.items
    duration,       \* formData.duration (text)
    startDate,      \* formData.startDate (<<>> or <<y, m, d>>)
    gstRate,        \* formData.gstRate
    isInterstate,   \* formData.isInterstate
    billingParty,   \* formData.billingParty
    now,            \* the value Date.now() returns
    handler,        \* "idle", or the event handler that is running
    invoice,        \* the snapshot generateInvoice() handed to the export
    \* ---- calculateGST as a pure function ----
    gstArgs,        \* the arguments of the call
    gstResult,      \* its result, NoResult before the call
    \* ---- generateInvoicePDF ----
    pc,             \* position in generateInvoicePDF / generateRestOfPDF
    pdfInvoice,     \* the invoice argument
    firstPageData,  \* body of the first-page table
    remainingData,  \* body of the continuation table
    numPages,       \* doc.internal.getNumberOfPages()
    curPage,        \* the page drawing calls go to
    cfPages,        \* pages carrying 'C/F (Carried Forward)'
    bfPages,        \* pages carrying 'B/F (Brought Forward)'
    hfPages,        \* pages addHeaderFooter(p) was called for
    tablePages,     \* pages that carry table rows
    totalPages,     \* the local totalPages (0 before it is read)
    pageNum,        \* loop variable of the stamping loop
    finalContent,   \* pages of each emission of the final content, in order
    headerArt,      \* "none", "bitmap" or "fallback" (main header image)
    footerArt,      \* same for the main footer image
    saved,          \* number of doc.save calls
    \* ---- further state of the InvoiceForm component ----
    invoiceNumber,  \* formData.invoiceNumber (text)
    renderedLength, \* formData.items.length in the addItem closure of the last render
    showPreview,    \* the preview dialog is open
    previewType,    \* "pdf", "excel" or "null"
    \* ---- images of generateInvoicePDF ----
    failing,        \* the image files that fail to load
    imgPending,     \* images of addHeaderFooter(p) whose callback has not fired
    pageArt,        \* header and footer art drawn by those callbacks
    fileName,       \* the argument of doc.save (<<>> before the call)
    \* ---- a helper of lib/utils.ts or lib/pdf-export.ts called on its own ----
    callee,         \* the function called, "none" when there is no call
    callArgs,       \* its argument
    callResult,     \* <<result>>, <<>> before it returns
    \* ---- dates and terms of the form ----
    invoiceDate,    \* formData.invoiceDate (<<>> or <<y, m, d>>)
    creditDays,     \* formData.creditDays
    dueDate,        \* formData.dueDate (<<>> or <<y, m, d>>)
    termsAndConditions, \* formData.termsAndConditions (text of the textarea)
    \* ---- the environment of the browser ----
    timeZone,       \* the local time zone of Date
    \* ---- layout of the PDF tables ----
    tableColumns    \* columnStyles of each autoTable call, in call order

formVars == <<items, duration, startDate, gstRate, isInterstate, billingParty,
              now, handler, invoice>>
gstVars == <<gstArgs, gstResult>>
pdfVars == <<pc, pdfInvoice, firstPageData, remainingData, numPages, curPage,
             cfPages, bfPages, hfPages, tablePages, totalPages, pageNum,
             finalContent, headerArt, footerArt, saved>>
viewVars == <<invoiceNumber, renderedLength, showPreview, previewType>>
imgVars == <<failing, imgPending, pageArt, fileName>>
callVars == <<callee, callArgs, callResult>>
docVars == <<invoiceDate, creditDays, dueDate, termsAndConditions>>
envVars == <<timeZone>>
layoutVars == <<tableColumns>>
vars == <<formVars, gstVars, pdfVars, viewVars, imgVars, callVars, docVars, envVars,
          layoutVars>>

----------------------------------------------------------------------------
(* Bounds of the model *)

MaxItems == 2        \* longest item list of the form specifications
MaxClock == 1        \* Date.now() takes the values 0..MaxClock
MaxHalfAmount == 120 \* calculateGST is called with amounts -60, -59.5 .. 60
MaxPdfItems == 10    \* longest item list handed to generateInvoicePDF
MaxImgItems == 9     \* longest item list when the image callbacks are followed
MaxWordsNumber == 120 \* numberToWords is called with 0..MaxWordsNumber and more
MaxGstinLen == 2     \* getStateFromGSTIN is called with every text up to this length
MaxQuarterAmount == 60 \* formatCurrency is called with -15, -14.75 .. 15 and more
MaxExcelItems == 3   \* longest item list handed to generateInvoiceExcel
MaxIdemItems == 1    \* longest item list when the derivation is re-applied
MaxTermsLen == 4     \* longest text typed into the terms field
MaxCreditDays == 12   \* largest number typed into the credit days input
MaxRate == 70        \* calculateAmountFromDuration is called with rates 0..MaxRate
MaxDuration == 64    \* and with durations of 0..MaxDuration days

----------------------------------------------------------------------------
(* JavaScript arithmetic *)

\* Math.round(num/den) for den > 0: floor(x + 0.5), halves go up.
MathRound(num, den) == (2 * num + den) \div (2 * den)

\* a % b of JavaScript for b > 0: the result has the sign of the dividend.
JsRem(a, b) == IF a >= 0 THEN a % b ELSE -((-a) % b)

NaN == <<>>

Digits == {"0", "1", "2", "3", "4", "5", "6", "7", "8", "9"}

DigitVal(c) ==
    CASE c = "0" -> 0 [] c = "1" -> 1 [] c = "2" -> 2 [] c = "3" -> 3
      [] c = "4" -> 4 [] c = "5" -> 5 [] c = "6" -> 6 [] c = "7" -> 7
      [] c = "8" -> 8 [] c = "9" -> 9

RECURSIVE SkipSpaces(_)
SkipSpaces(s) ==
    IF s # <<>> /\ Head(s) = " " THEN SkipSpaces(Tail(s)) ELSE s

RECURSIVE DigitPrefix(_)
DigitPrefix(s) ==
    IF s # <<>> /\ Head(s) \in Digits
    THEN <<Head(s)>> \o DigitPrefix(Tail(s))
    ELSE <<>>

RECURSIVE DigitsValue(_, _)
DigitsValue(ds, acc) ==
    IF ds = <<>> THEN acc ELSE DigitsValue(Tail(ds), 10 * acc + DigitVal(Head(ds)))

RECURSIVE Pow10(_)
Pow10(k) == IF k = 0 THEN 1 ELSE 10 * Pow10(k - 1)

Drop(s, k) == SubSeq(s, k + 1, Len(s))

DigitChar(d) == CHOOSE c \in Digits : DigitVal(c) = d

\* n.toString() for an integer n
RECURSIVE NatText(_)
NatText(n) ==
    IF n < 10 THEN <<DigitChar(n)>>
    ELSE Append(NatText(n \div 10), DigitChar(n % 10))

toString(n) == IF n < 0 THEN <<"-">> \o NatText(-n) ELSE NatText(n)

\* s.slice(-k)
SliceLast(s, k) == IF Len(s) <= k THEN s ELSE SubSeq(s, Len(s) - k + 1, Len(s))

\* parseInt(text): leading blanks, an optional sign, then decimal digits;
\* NaN when no digit follows.  The result is <<n>>.
parseInt(text) ==
    LET s0 == SkipSpaces(text)
        neg == s0 # <<>> /\ Head(s0) = "-"
        s1 == IF s0 # <<>> /\ Head(s0) \in {"-", "+"} THEN Tail(s0) ELSE s0
        ds == DigitPrefix(s1)
    IN  IF ds = <<>> THEN NaN
        ELSE <<(IF neg THEN -1 ELSE 1) * DigitsValue(ds, 0)>>

\* parseFloat(text): leading blanks, an optional sign, digits, an optional
\* '.' and more digits; NaN when there is no digit.  The result is the
\* fraction <<num, den>>.
parseFloat(text) ==
    LET s0 == SkipSpaces(text)
        neg == s0 # <<>> /\ Head(s0) = "-"
        s1 == IF s0 # <<>> /\ Head(s0) \in {"-", "+"} THEN Tail(s0) ELSE s0
        ip == DigitPrefix(s1)
        s2 == Drop(s1, Len(ip))
        fp == IF s2 # <<>> /\ Head(s2) = "." THEN DigitPrefix(Tail(s2)) ELSE <<>>
        den == Pow10(Len(fp))
        mag == DigitsValue(ip, 0) * den + DigitsValue(fp, 0)
    IN  IF ip = <<>> /\ fp = <<>> THEN NaN
        ELSE <<(IF neg THEN -1 ELSE 1) * mag, den>>

----------------------------------------------------------------------------
(* Calendar dates, <<y, m, d>> *)

IsLeap(y) == (y % 4 = 0 /\ y % 100 # 0) \/ y % 400 = 0

DaysInMonth(y, m) ==
    IF m = 2 THEN (IF IsLeap(y) THEN 29 ELSE 28)
    ELSE IF m \in {4, 6, 9, 11} THEN 30 ELSE 31

NextDay(date) ==
    LET y == date[1]  m == date[2]  d == date[3]
    IN  IF d < DaysInMonth(y, m) THEN <<y, m, d + 1>>
        ELSE IF m < 12 THEN <<y, m + 1, 1>>
        ELSE <<y + 1, 1, 1>>

PrevDay(date) ==
    LET y == date[1]  m == date[2]  d == date[3]
    IN  IF d > 1 THEN <<y, m, d - 1>>
        ELSE IF m > 1 THEN <<y, m - 1, DaysInMonth(y, m - 1)>>
        ELSE <<y - 1, 12, 31>>

\* Date.setDate(getDate() + k): the date k days later (earlier for k < 0).
RECURSIVE AddDays(_, _)
AddDays(date, k) ==
    LET y == date[1]  m == date[2]  d == date[3]
        last == DaysInMonth(y, m)
    IN  IF 1 <= d + k /\ d + k <= last THEN <<y, m, d + k>>
        ELSE IF k > 0 THEN AddDays(NextDay(<<y, m, last>>), k - (last - d) - 1)
        ELSE AddDays(PrevDay(<<y, m, 1>>), k + d)

\* toLocaleDateString('en-GB', 2-digit day and month): DD/MM/YYYY, kept as
\* the triple <<DD, MM, YYYY>>.
formatDate(date) == <<date[3], date[2], date[1]>>

----------------------------------------------------------------------------
(* src/lib/utils.ts *)

\* GST_STATE_CODES as <<key, state, code>> entries; keys and codes are the
\* two characters of the code.
GST_STATE_ENTRIES ==
    {
        <<<<"0", "1">>, "Jammu and Kashmir", <<"0", "1">>>>,
        <<<<"0", "2">>, "Himachal Pradesh", <<"0", "2">>>>,
        <<<<"0", "3">>, "Punjab", <<"0", "3">>>>,
        <<<<"0", "4">>, "Chandigarh", <<"0", "4">>>>,
        <<<<"0", "5">>, "Uttarakhand", <<"0", "5">>>>,
        <<<<"0", "6">>, "Haryana", <<"0", "6">>>>,
        <<<<"0", "7">>, "Delhi", <<"0", "7">>>>,
        <<<<"0", "8">>, "Rajasthan", <<"0", "8">>>>,
        <<<<"0", "9">>, "Uttar Pradesh", <<"0", "9">>>>,
        <<<<"1", "0">>, "Bihar", <<"1", "0">>>>,
        <<<<"1", "1">>, "Sikkim", <<"1", "1">>>>,
        <<<<"1", "2">>, "Arunachal Pradesh", <<"1", "2">>>>,
        <<<<"1", "3">>, "Nagaland", <<"1", "3">>>>,
        <<<<"1", "4">>, "Manipur", <<"1", "4">>>>,
        <<<<"1", "5">>, "Mizoram", <<"1", "5">>>>,
        <<<<"1", "6">>, "Tripura", <<"1", "6">>>>,
        <<<<"1", "7">>, "Meghalaya", <<"1", "7">>>>,
        <<<<"1", "8">>, "Assam", <<"1", "8">>>>,
        <<<<"1", "9">>, "West Bengal", <<"1", "9">>>>,
        <<<<"2", "0">>, "Jharkhand", <<"2", "0">>>>,
        <<<<"2", "1">>, "Odisha", <<"2", "1">>>>,
        <<<<"2", "2">>, "Chhattisgarh", <<"2", "2">>>>,
        <<<<"2", "3">>, "Madhya Pradesh", <<"2", "3">>>>,
        <<<<"2", "4">>, "Gujarat", <<"2", "4">>>>,
        <<<<"2", "6">>, "Dadra and Nagar Haveli and Daman and Diu", <<"2", "6">>>>,
        <<<<"2", "7">>, "Maharashtra", <<"2", "7">>>>,
        <<<<"2", "9">>, "Karnataka", <<"2", "9">>>>,
        <<<<"3", "0">>, "Goa", <<"3", "0">>>>,
        <<<<"3", "1">>, "Lakshadweep", <<"3", "1">>>>,
        <<<<"3", "2">>, "Kerala", <<"3", "2">>>>,
        <<<<"3", "3">>, "Tamil Nadu", <<"3", "3">>>>,
        <<<<"3", "4">>, "Puducherry", <<"3", "4">>>>,
        <<<<"3", "5">>, "Andaman and Nicobar Islands", <<"3", "5">>>>,
        <<<<"3", "6">>, "Telangana", <<"3", "6">>>>,
        <<<<"3", "7">>, "Andhra Pradesh", <<"3", "7">>>>,
        <<<<"3", "8">>, "Ladakh", <<"3", "8">>>>
    }

GST_STATE_KEYS == {e[1] : e \in GST_STATE_ENTRIES}

GST_STATE_CODES ==
    [k \in GST_STATE_KEYS |->
        LET e == CHOOSE x \in GST_STATE_ENTRIES : x[1] = k
        IN  [state |-> e[2], code |-> e[3]]]

\* getStateFromGSTIN looking the last two characters up.
getStateFromGSTIN_LastTwo(gstin) ==
    IF gstin = <<>> \/ Len(gstin) < 2 THEN <<>>
    ELSE LET stateCode == SubSeq(gstin, Len(gstin) - 1, Len(gstin))
         IN  IF stateCode \in GST_STATE_KEYS
             THEN <<GST_STATE_CODES[stateCode]>>
             ELSE <<>>

\* getStateFromGSTIN(gstin): <<>> is null, <<entry>> the table entry.
getStateFromGSTIN(gstin) ==
    IF gstin = <<>> \/ Len(gstin) < 2 THEN <<>>
    ELSE LET stateCode == SubSeq(gstin, 1, 2)
         IN  IF stateCode \in GST_STATE_KEYS
             THEN <<GST_STATE_CODES[stateCode]>>
             ELSE <<>>

DEFAULT_GST_RATE == 18

\* Intl.NumberFormat('en-IN', no fraction digits).format(n) for an integer
\* n: the last three digits, then groups of two, a '-' for a negative n.
RECURSIVE GroupPairs(_)
GroupPairs(ds) ==
    IF Len(ds) <= 2 THEN ds
    ELSE GroupPairs(SubSeq(ds, 1, Len(ds) - 2)) \o <<",">>
             \o SubSeq(ds, Len(ds) - 1, Len(ds))

GroupIndian(ds) ==
    IF Len(ds) <= 3 THEN ds
    ELSE GroupPairs(SubSeq(ds, 1, Len(ds) - 3)) \o <<",">>
             \o SubSeq(ds, Len(ds) - 2, Len(ds))

\* The two types of the argument of formatCurrency.
Number(num, den) == [type |-> "number", value |-> <<num, den>>]
String(text) == [type |-> "string", value |-> text]

\* negativeZero: n is the -0 that Math.round gives for -0.5 <= x < 0
FormatEnIN(n, negativeZero) ==
    IF n < 0 \/ negativeZero THEN <<"-">> \o GroupIndian(NatText(-n))
    ELSE GroupIndian(NatText(n))

\* formatCurrency(amount); amount is [type |-> "number", value |-> <<num, den>>]
\* or [type |-> "string", value |-> text].
formatCurrency(amount) ==
    LET Format(x) ==
            IF x[1] = 0 THEN <<>>
            ELSE LET roundedAmount == MathRound(x[1], x[2])
                 IN  FormatEnIN(roundedAmount, roundedAmount = 0 /\ x[1] < 0)
    IN  IF amount.type = "string"
        THEN IF amount.value = <<>> \/ amount.value = <<"0">> THEN <<>>
             ELSE LET numAmount == parseFloat(amount.value)
                  IN  IF numAmount = NaN THEN amount.value ELSE Format(numAmount)
        ELSE Format(amount.value)

\* numberToWords(num).  A text of words is a sequence of tokens, each a
\* word or one blank " "; <<>> is the empty string.
ones == <<"One", "Two", "Three", "Four", "Five", "Six", "Seven", "Eight", "Nine">>
teens == <<"Ten", "Eleven", "Twelve", "Thirteen", "Fourteen", "Fifteen",
           "Sixteen", "Seventeen", "Eighteen", "Nineteen">>
tens == <<"Twenty", "Thirty", "Forty", "Fifty", "Sixty", "Seventy", "Eighty",
          "Ninety">>

\* ones[i]: '' for i = 0, the text 'undefined' past the end of the array
OnesAt(i) == IF i = 0 THEN <<>> ELSE IF i <= 9 THEN <<ones[i]>> ELSE <<"undefined">>
\* teens[i] for i in 0..9
TeensAt(i) == <<teens[i + 1]>>
\* tens[i] for i in 2..9
TensAt(i) == <<tens[i - 1]>>

\* text.trim(): white space is removed at both ends
WhiteSpace == {" ", "\t"}

RECURSIVE TrimStart(_)
TrimStart(text) ==
    IF text # <<>> /\ Head(text) \in WhiteSpace THEN TrimStart(Tail(text)) ELSE text

RECURSIVE TrimEnd(_)
TrimEnd(text) ==
    IF text # <<>> /\ text[Len(text)] \in WhiteSpace
    THEN TrimEnd(SubSeq(text, 1, Len(text) - 1)) ELSE text

Trim(text) == TrimEnd(TrimStart(text))

\* convertHundreds giving a teen a units word as well.
convertHundreds_TeenWithUnits(n) ==
    LET r1 == IF n >= 100 THEN OnesAt(n \div 100) \o <<" ", "Hundred", " ">> ELSE <<>>
        n1 == IF n >= 100 THEN n % 100 ELSE n
    IN  IF n1 >= 20
        THEN LET r2 == r1 \o TensAt(n1 \div 10) \o <<" ">>
                 n2 == n1 % 10
             IN  IF n2 > 0 THEN r2 \o OnesAt(n2) \o <<" ">> ELSE r2
        ELSE IF n1 >= 10
        THEN r1 \o TeensAt(n1 - 10) \o <<" ">> \o
             (IF n1 % 10 > 0 THEN OnesAt(n1 % 10) \o <<" ">> ELSE <<>>)
        ELSE IF n1 > 0 THEN r1 \o OnesAt(n1) \o <<" ">> ELSE r1

\* convertHundreds(n)
convertHundreds(n) ==
    LET r1 == IF n >= 100 THEN OnesAt(n \div 100) \o <<" ", "Hundred", " ">> ELSE <<>>
        n1 == IF n >= 100 THEN n % 100 ELSE n
    IN  IF n1 >= 20
        THEN LET r2 == r1 \o TensAt(n1 \div 10) \o <<" ">>
                 n2 == n1 % 10
             IN  IF n2 > 0 THEN r2 \o OnesAt(n2) \o <<" ">> ELSE r2
        ELSE IF n1 >= 10
        THEN r1 \o TeensAt(n1 - 10) \o <<" ">>
        ELSE IF n1 > 0 THEN r1 \o OnesAt(n1) \o <<" ">> ELSE r1

numberToWords(num) ==
    IF num = 0 THEN <<"Zero">>
    ELSE LET crores == num \div 10000000
             lakhs == JsRem(num, 10000000) \div 100000
             thousandsValue == JsRem(num, 100000) \div 1000
             hundreds == JsRem(num, 1000)
             r1 == IF crores > 0 THEN convertHundreds(crores) \o <<"Crore", " ">> ELSE <<>>
             r2 == IF lakhs > 0 THEN r1 \o convertHundreds(lakhs) \o <<"Lakh", " ">> ELSE r1
             r3 == IF thousandsValue > 0
                   THEN r2 \o convertHundreds(thousandsValue) \o <<"Thousand", " ">>
                   ELSE r2
             r4 == IF hundreds > 0 THEN r3 \o convertHundreds(hundreds) ELSE r3
         IN  Trim(r4) \o <<" ", "Only">>

\* calculateGST with Math.floor in place of Math.round for the GST amount.
calculateGST_Floor(amountNum, amountDen, rateArg) ==
    LET rate == IF rateArg = <<>> THEN 18 ELSE rateArg[1]
        roundedAmount == MathRound(amountNum, amountDen)
        gstAmount == (roundedAmount * rate) \div 100
    IN  [cgst  |-> MathRound(gstAmount, 2),
         sgst  |-> MathRound(gstAmount, 2),
         igst  |-> MathRound(gstAmount, 1),
         total |-> MathRound(roundedAmount + gstAmount, 1)]

\* calculateGST taxing the magnitude of the amount.
calculateGST_Magnitude(amountNum, amountDen, rateArg) ==
    LET rate == IF rateArg = <<>> THEN 18 ELSE rateArg[1]
        roundedAmount == MathRound(amountNum, amountDen)
        magnitude == IF roundedAmount < 0 THEN -roundedAmount ELSE roundedAmount
        gstAmount == MathRound(magnitude * rate, 100)
    IN  [cgst  |-> MathRound(gstAmount, 2),
         sgst  |-> MathRound(gstAmount, 2),
         igst  |-> MathRound(gstAmount, 1),
         total |-> MathRound(roundedAmount + gstAmount, 1)]

\* calculateGST(amount, gstRate = 18) for amount = amountNum / amountDen;
\* rateArg is <<>> when the argument is omitted and <<rate>> otherwise.
calculateGST(amountNum, amountDen, rateArg) ==
    LET rate == IF rateArg = <<>> THEN DEFAULT_GST_RATE ELSE rateArg[1]
        roundedAmount == MathRound(amountNum, amountDen)
        gstAmount == MathRound(roundedAmount * rate, 100)
    IN  [cgst  |-> MathRound(gstAmount, 2),
         sgst  |-> MathRound(gstAmount, 2),
         igst  |-> MathRound(gstAmount, 1),
         total |-> MathRound(roundedAmount + gstAmount, 1)]

----------------------------------------------------------------------------
(* src/components/InvoiceForm.tsx: helpers *)

HOME_STATE == "Chhattisgarh"

INITIAL_BILLING_PARTY == [name |-> "", gstin |-> <<>>, state |-> "", city |-> ""]

\* INITIAL_ITEM with the id and sno that addItem adds.
INITIAL_ITEM(id, sno) ==
    [id |-> id, sno |-> sno, ratePM |-> <<>>, period |-> <<>>, amount |-> 0]

\* The local time zone of the browser: one zone east of UTC and one west of
\* it (Asia/Kolkata is UTC+5:30; America/New_York is UTC-5, UTC-4 in summer).
TimeZones == {"Asia/Kolkata", "America/New_York"}

\* new Date('YYYY-MM-DD') is midnight UTC of that day; getDate, setDate and
\* toLocaleDateString work on the local date of that instant, which west of
\* UTC is the day before.
LocalDate(date) ==
    IF timeZone = "America/New_York" THEN PrevDay(date) ELSE date

\* Daylight saving time of America/New_York: from the second Sunday of
\* March to the first Sunday of November; both changes happen at 2 a.m., so
\* in the evening of a local day summer time is on from the first of these
\* days to the day before the second.
NewYorkSummer ==
    [y \in 2022..2025 |->
        CASE y = 2022 -> << <<2022, 3, 13>>, <<2022, 11, 6>> >>
          [] y = 2023 -> << <<2023, 3, 12>>, <<2023, 11, 5>> >>
          [] y = 2024 -> << <<2024, 3, 10>>, <<2024, 11, 3>> >>
          [] y = 2025 -> << <<2025, 3, 9>>, <<2025, 11, 2>> >>]

NotBefore(a, b) ==
    \/ a[1] > b[1]
    \/ a[1] = b[1] /\ a[2] > b[2]
    \/ a[1] = b[1] /\ a[2] = b[2] /\ a[3] >= b[3]

\* Summer time is in force in the evening of the local day.
SummerTime(localDate) ==
    /\ timeZone = "America/New_York"
    /\ NotBefore(localDate, NewYorkSummer[localDate[1]][1])
    /\ ~NotBefore(localDate, NewYorkSummer[localDate[1]][2])

\* calculateDueDate(invoiceDate, creditDays): <<>> is ''.  new Date(invoiceDate)
\* is midnight UTC; setDate moves the local date and keeps the local time
\* of day; toISOString gives the UTC date of the result.  In Asia/Kolkata
\* the local time is 05:30 of the same day.  In America/New_York it is 19:00
\* (20:00 in summer) of the day before, which is midnight UTC of the next
\* day again unless the clock changed to summer time in between: 19:00
\* summer time is 23:00 UTC of the same day.
calculateDueDate(invoiceDateArg, creditDaysArg) ==
    IF invoiceDateArg = <<>> \/ creditDaysArg <= 0 THEN <<>>
    ELSE LET startLocal == LocalDate(invoiceDateArg)
             endLocal == AddDays(startLocal, creditDaysArg)
         IN  IF timeZone = "America/New_York"
             THEN IF ~SummerTime(startLocal) /\ SummerTime(endLocal)
                  THEN endLocal
                  ELSE NextDay(endLocal)
             ELSE endLocal

\* new Date().toISOString().split('T')[0] when the form is created
Today == <<2024, 3, 1>>

\* A multi-line text is a sequence of tokens: "\n", a blank " ", or a run
\* of characters without line break that neither starts nor ends with a
\* blank.  DEFAULT_TERMS.join('\n') is Join(DEFAULT_TERMS, "\n").
DEFAULT_TERMS ==
    << <<"Any complaint about the advertisement must be received within 7 days from the date of bill.">>,
       <<"Cheques/D.D.(crossed) to be drawn in favour of DESHKAR ADVERTISING, RAIPUR">>,
       <<"Interest will be charged @ 24% if the bill is not paid in 10 days.">>,
       <<"No receipt is valid unless given on official form.">>,
       <<"Subject to Raipur Jurisdiction. State: Chhattisgarh, State Code : 22">>,
       <<"Enquiry Pin Code : 492001">>,
       <<"Our PAN NO.: AKJPD0941N & Our GST NO.: 22AKJPD0941N4Z8">> >>

\* lines.join(separator)
RECURSIVE Join(_, _)
Join(lines, separator) ==
    IF lines = <<>> THEN <<>>
    ELSE IF Len(lines) = 1 THEN lines[1]
    ELSE lines[1] \o <<separator>> \o Join(Tail(lines), separator)

\* text.split(separator): the pieces between the separators, one piece
\* more than there are separators.
RECURSIVE Split(_, _)
Split(text, separator) ==
    IF \A i \in DOMAIN text : text[i] # separator THEN <<text>>
    ELSE LET first == CHOOSE i \in DOMAIN text :
                         /\ text[i] = separator
                         /\ \A j \in 1..(i - 1) : text[j] # separator
         IN  <<SubSeq(text, 1, first - 1)>>
                 \o Split(SubSeq(text, first + 1, Len(text)), separator)

\* calculatePeriodFromDates(startDate, duration): <<>> is '', otherwise the
\* pair of formatted dates of '<start> to <end>'.  The start date is the
\* value of a date input, so it is empty or a valid date.
calculatePeriodFromDates(start, dur) ==
    IF start = <<>> \/ dur = <<>> THEN <<>>
    ELSE LET durationDays == parseInt(dur)
         IN  IF durationDays = NaN THEN <<>>
             ELSE LET startLocal == LocalDate(start)
                  IN  <<formatDate(startLocal),
                        formatDate(AddDays(startLocal, durationDays[1] - 1))>>

\* The numbers of the code are IEEE-754 doubles: rate / 30, the product
\* remainingDays * dailyRate and the sum monthlyAmount + dailyAmount are
\* each rounded to the nearest double.  For an integer rate of 0..300 and
\* 0..400 days the double is nearer than 1/60 to the exact value, and it is
\* below an exact value of k + 1/2 for these <<rate, durationDays>>.
DoubleBelowHalf ==
    {<<65, 27>>, <<69, 25>>, <<123, 15>>, <<123, 25>>, <<153, 25>>,
     <<245, 15>>, <<245, 27>>, <<247, 15>>, <<261, 25>>, <<275, 27>>,
     <<291, 25>>}

\* calculateAmountFromDuration(ratePM, duration), ratePM a text.
calculateAmountFromDuration(ratePM, dur) ==
    IF ratePM = <<>> \/ dur = <<>> THEN 0
    ELSE LET rate == parseFloat(ratePM)
             durationDays == parseInt(dur)
         IN  IF rate = NaN THEN 0
             ELSE IF durationDays = NaN THEN 0
             ELSE LET months == durationDays[1] \div 30
                      remainingDays == JsRem(durationDays[1], 30)
                      \* months * rate + remainingDays * (rate / 30), exactly
                      exact == MathRound(months * 30 * rate[1] + remainingDays * rate[1],
                                         30 * rate[2])
                  IN  IF /\ rate[1] % rate[2] = 0
                         /\ <<rate[1] \div rate[2], durationDays[1]>> \in DoubleBelowHalf
                      THEN exact - 1
                      ELSE exact

\* Number(text) for the value of a number input (empty or a valid number).
JsNumber(text) == IF text = <<>> THEN <<0, 1>> ELSE parseFloat(text)

RECURSIVE SumAmounts(_)
SumAmounts(its) ==
    IF its = <<>> THEN 0 ELSE Head(its).amount + SumAmounts(Tail(its))

\* calculateTotals with igst filled in whatever the interstate flag is.
calculateTotals_IgstAlways(fd) ==
    LET subtotal == MathRound(SumAmounts(fd.items), 1)
        rounded == MathRound(subtotal * fd.gstRate, 100)
    IN  [subtotal   |-> subtotal,
         cgst       |-> IF fd.isInterstate THEN 0 ELSE MathRound(rounded, 2),
         sgst       |-> IF fd.isInterstate THEN 0 ELSE MathRound(rounded, 2),
         igst       |-> rounded,
         grandTotal |-> subtotal + rounded]

\* calculateTotals with the test of the interstate flag inverted.
calculateTotals_RoutingInverted(fd) ==
    LET subtotal == MathRound(SumAmounts(fd.items), 1)
        rounded == MathRound(subtotal * fd.gstRate, 100)
    IN  [subtotal   |-> subtotal,
         cgst       |-> IF fd.isInterstate THEN MathRound(rounded, 2) ELSE 0,
         sgst       |-> IF fd.isInterstate THEN MathRound(rounded, 2) ELSE 0,
         igst       |-> IF fd.isInterstate THEN 0 ELSE rounded,
         grandTotal |-> subtotal + rounded]

\* calculateTotals() over the form data fd.
calculateTotals(fd) ==
    LET subtotal == MathRound(SumAmounts(fd.items), 1)
        gst == calculateGST(subtotal, 1, <<fd.gstRate>>)
    IN  [subtotal   |-> subtotal,
         cgst       |-> IF fd.isInterstate THEN 0 ELSE gst.cgst,
         sgst       |-> IF fd.isInterstate THEN 0 ELSE gst.sgst,
         igst       |-> IF fd.isInterstate THEN gst.igst ELSE 0,
         grandTotal |-> gst.total]

\* generateInvoice() trimming the terms it keeps.
generateInvoice_TrimsTerms(fd) ==
    LET totals == calculateTotals(fd)
        lines == Split(fd.termsAndConditions, "\n")
        Kept(term) == term # <<>>
    IN  [invoiceNumber |-> fd.invoiceNumber,
         invoiceDate  |-> fd.invoiceDate,
         dueDate      |-> fd.dueDate,
         duration     |-> fd.duration,
         billingParty |-> fd.billingParty,
         items        |-> fd.items,
         subtotal     |-> totals.subtotal,
         cgst         |-> totals.cgst,
         sgst         |-> totals.sgst,
         igst         |-> totals.igst,
         grandTotal   |-> totals.grandTotal,
         totalInWords |-> numberToWords(MathRound(totals.grandTotal, 1)),
         termsAndConditions |->
             SelectSeq([i \in DOMAIN lines |-> Trim(lines[i])], Kept)]

\* generateInvoice() over the form data fd.
generateInvoice(fd) ==
    LET totals == calculateTotals(fd)
        Kept(term) == Trim(term) # <<>>
    IN  [invoiceNumber |-> fd.invoiceNumber,
         invoiceDate  |-> fd.invoiceDate,
         dueDate      |-> fd.dueDate,
         duration     |-> fd.duration,
         billingParty |-> fd.billingParty,
         items        |-> fd.items,
         subtotal     |-> totals.subtotal,
         cgst         |-> totals.cgst,
         sgst         |-> totals.sgst,
         igst         |-> totals.igst,
         grandTotal   |-> totals.grandTotal,
         totalInWords |-> numberToWords(MathRound(totals.grandTotal, 1)),
         termsAndConditions |->
             SelectSeq(Split(fd.termsAndConditions, "\n"), Kept)]

\* The 'Amount in Words' paragraph of the summary, rendered from the totals.
amountInWords(fd) ==
    LET totals == calculateTotals(fd)
    IN  IF totals.grandTotal > 0
        THEN numberToWords(MathRound(totals.grandTotal, 1))
        ELSE <<"Zero", " ", "Only">>

\* The current value of the formData state.
formData ==
    [invoiceNumber |-> invoiceNumber,
     invoiceDate |-> invoiceDate, dueDate |-> dueDate, creditDays |-> creditDays,
     termsAndConditions |-> termsAndConditions,
     items |-> items, duration |-> duration, startDate |-> startDate,
     gstRate |-> gstRate, isInterstate |-> isInterstate,
     billingParty |-> billingParty]

ItemIds == {items[i].id : i \in DOMAIN items}

----------------------------------------------------------------------------
(* src/components/InvoiceForm.tsx: the state updates of the handlers, as   *)
(* functions of the previous form data                                      *)

\* addItem(): the new item list; closureLength is formData.items.length as
\* the callback captured it at the render that created it, t is Date.now().
addItem(prev, closureLength, t) ==
    Append(prev.items, INITIAL_ITEM(t, closureLength + 1))

\* removeItem(id): the new item list.
removeItem(prev, id) ==
    LET kept == SelectSeq(prev.items, LAMBDA item : item.id # id)
    IN  [index \in 1..Len(kept) |-> [kept[index] EXCEPT !.sno = index]]

\* copyItem(id): the new item list; t is Date.now().
copyItem(prev, id, t) ==
    IF \A i \in DOMAIN prev.items : prev.items[i].id # id THEN prev.items
    ELSE LET first == CHOOSE i \in DOMAIN prev.items :
                          /\ prev.items[i].id = id
                          /\ \A j \in 1..(i - 1) : prev.items[j].id # id
             itemToCopy == prev.items[first]
         IN  Append(prev.items,
                    [itemToCopy EXCEPT !.id = t, !.sno = Len(prev.items) + 1])

\* updateItem(id, field, value): the new item list.
updateItem(prev, id, field, value) ==
    LET Updated(item) ==
            LET u0 == [item EXCEPT ![field] = value]
                u1 == IF field = "ratePM" /\ prev.duration # <<>> /\ value # <<>>
                      THEN [u0 EXCEPT !.amount =
                               calculateAmountFromDuration(value, prev.duration)]
                      ELSE u0
            IN  IF prev.startDate # <<>> /\ prev.duration # <<>>
                THEN [u1 EXCEPT !.period =
                         calculatePeriodFromDates(prev.startDate, prev.duration)]
                ELSE u1
    IN  [i \in DOMAIN prev.items |->
            IF prev.items[i].id = id THEN Updated(prev.items[i]) ELSE prev.items[i]]

\* updateGlobalDateDuration scaling the item's last amount instead of its rate.
updateGlobalDateDuration_FromAmount(prev, field, value) ==
    LET updatedFormData == [prev EXCEPT ![field] = value]
        Updated(item) ==
            LET u1 == IF updatedFormData.startDate # <<>> /\ updatedFormData.duration # <<>>
                      THEN [item EXCEPT !.period =
                               calculatePeriodFromDates(updatedFormData.startDate,
                                                        updatedFormData.duration)]
                      ELSE item
            IN  IF item.ratePM # <<>> /\ updatedFormData.duration # <<>>
                THEN [u1 EXCEPT !.amount =
                         calculateAmountFromDuration(toString(item.amount),
                                                     updatedFormData.duration)]
                ELSE u1
    IN  [updatedFormData EXCEPT !.items =
            [i \in DOMAIN prev.items |-> Updated(prev.items[i])]]

\* updateGlobalDateDuration(field, value): the new form data.
updateGlobalDateDuration(prev, field, value) ==
    LET updatedFormData == [prev EXCEPT ![field] = value]
        Updated(item) ==
            LET u1 == IF updatedFormData.startDate # <<>> /\ updatedFormData.duration # <<>>
                      THEN [item EXCEPT !.period =
                               calculatePeriodFromDates(updatedFormData.startDate,
                                                        updatedFormData.duration)]
                      ELSE item
            IN  IF item.ratePM # <<>> /\ updatedFormData.duration # <<>>
                THEN [u1 EXCEPT !.amount =
                         calculateAmountFromDuration(item.ratePM, updatedFormData.duration)]
                ELSE u1
    IN  [updatedFormData EXCEPT !.items =
            [i \in DOMAIN prev.items |-> Updated(prev.items[i])]]

\* updateBillingParty clearing the state when the GSTIN does not resolve.
updateBillingParty_ClearsUnresolved(prev, field, value) ==
    LET updatedBillingParty == [prev.billingParty EXCEPT ![field] = value]
        stateInfo == getStateFromGSTIN(value)
    IN  IF field = "gstin"
        THEN [updatedBillingParty EXCEPT !.state =
                 IF stateInfo # <<>> THEN stateInfo[1].state ELSE ""]
        ELSE updatedBillingParty

\* updateBillingParty(field, value): the new billing party.
updateBillingParty(prev, field, value) ==
    LET updatedBillingParty == [prev.billingParty EXCEPT ![field] = value]
        stateInfo == getStateFromGSTIN(value)
    IN  IF field = "gstin" /\ value # <<>> /\ stateInfo # <<>>
        THEN [updatedBillingParty EXCEPT !.state = stateInfo[1].state]
        ELSE updatedBillingParty

\* The onChange handler of the state select: updateBillingParty('state', v)
\* followed by the update of isInterstate; the new form data.
stateSelectOnChange(prev, value) ==
    [prev EXCEPT !.billingParty = updateBillingParty(prev, "state", value),
                 !.isInterstate = (value # HOME_STATE)]

----------------------------------------------------------------------------
(* src/lib/utils.ts: generateInvoiceExcel(invoice)                          *)

\* A row of the sheet: its text cells (the interpolated part of a template
\* left out) and, for an item row or a tax row, the number it carries.
Row(kind, cells, value) == [kind |-> kind, cells |-> cells, value |-> value]

TextRow(text) == Row("text", <<text>>, 0)

headerData(inv) ==
    << TextRow("DESHKAR ADVERTISING"),
       TextRow("Shop No. 123, Advertisement Plaza"),
       TextRow("Mumbai, Maharashtra - 400001"),
       TextRow("Phone: +91 98765 43210 | Email: info@deshkaradvertising.com"),
       TextRow("GSTIN: 27AAAAA0000A1Z5"),
       TextRow(""),
       TextRow("TAX INVOICE"),
       TextRow(""),
       Row("text", <<"Invoice No: ", "", "", "Invoice Date: ">>, 0),
       TextRow("Due Date: "),
       TextRow(""),
       TextRow("BILL TO:"),
       TextRow(inv.billingParty.name),
       TextRow("address"),
       TextRow(inv.billingParty.city),
       TextRow("GSTIN: "),
       TextRow(""),
       TextRow("INVOICE DETAILS:"),
       Row("titles", <<"S.No.", "Town", "Location", "HSN", "Media", "Size", "Area",
                       "Type", "Rate P.M.", "Period", "Amount">>, 0) >>

itemsData(inv) ==
    [i \in DOMAIN inv.items |-> Row("item", <<>>, inv.items[i].sno)]

TaxRow(label, value) ==
    Row("tax", <<"", "", "", "", "", "", "", "", label, "">>, value)

taxData(inv) ==
    << TextRow(""), TaxRow("Subtotal:", inv.subtotal) >>
    \o (IF inv.cgst > 0
        THEN << TaxRow("CGST:", inv.cgst), TaxRow("SGST:", inv.sgst) >>
        ELSE << TaxRow("IGST:", inv.igst) >>)
    \o << TaxRow("Grand Total:", inv.grandTotal) >>

wordsData(inv) == << TextRow(""), TextRow("Amount in Words: "), TextRow("") >>

termsData(inv) ==
    << TextRow("TERMS & CONDITIONS:") >>
    \o [index \in DOMAIN inv.termsAndConditions |->
            TextRow(inv.termsAndConditions[index])]
    \o << TextRow(""), TextRow(""), TextRow("For DESHKAR ADVERTISING"),
          TextRow("Authorized Signatory") >>

\* allData, the rows handed to aoa_to_sheet
generateInvoiceExcel(inv) ==
    headerData(inv) \o itemsData(inv) \o taxData(inv) \o wordsData(inv)
        \o termsData(inv)

----------------------------------------------------------------------------
(* Inputs of the form *)

RateTexts == {<<>>, <<"3", "0">>}
\* texts typed into the rate input (type="text"): also '0' and a non-number
RateEdits == RateTexts \cup {<<"0">>, <<"a">>}
AmountTexts == {<<>>, <<"5", "0">>, <<"-", "5", "0">>}
GstRateTexts == {<<"0">>, <<"5">>, <<"1", "8">>}
DurationTexts == {<<>>, <<"3", "7">>, <<"4", "5">>}
\* values of the start date input: '' or a date
StartDates == {<<>>, <<2024, 1, 15>>, <<2024, 2, 20>>}
NameInputs == {"", "ACME"}
\* values of the invoice date input and numbers typed for the credit days
InvoiceDates ==
    {<<>>, <<2024, 3, 1>>, <<2024, 1, 15>>, <<2024, 10, 25>>, <<2024, 12, 20>>}
CreditDaysInputs == (-1)..MaxCreditDays
\* texts typed into the terms field: line breaks, blanks and two letters
TermsChars == {"\n", " ", "a", "b"}
CityInputs == {"", "Raipur"}
GstinInputs ==
    {<<>>, <<"2">>, <<"2", "2", "A", "K">>, <<"2", "7", "A", "A">>,
     <<"2", "5", "A", "A">>}
\* options of the state select: '' and the states of GST_STATE_CODES
StateOptions == {""} \cup {e[2] : e \in GST_STATE_ENTRIES}
StateInputs == {"", "Chhattisgarh", "Maharashtra", "Delhi"}

----------------------------------------------------------------------------
(* The form as a state machine: one action per event handler.  A handler   *)
(* runs to completion and the form re-renders before the next event, so    *)
(* the values a handler closes over are those of the current state; the    *)
(* actions that end in NoRender are the handlers without that render.      *)

Idle == handler = "idle"

NoInvoice == <<>>

FormInit ==
    /\ items = <<>>
    /\ duration = <<"3", "7">>
    /\ startDate = <<>>
    /\ gstRate = 18
    /\ isInterstate = FALSE
    /\ billingParty = INITIAL_BILLING_PARTY
    /\ now = 0
    /\ handler = "idle"
    /\ invoice = NoInvoice
    /\ invoiceNumber = <<"I", "N", "V">> \o SliceLast(toString(0), 6)
    /\ renderedLength = 0
    /\ showPreview = FALSE
    /\ previewType = "null"
    /\ invoiceDate = Today
    /\ creditDays = 0
    /\ dueDate = <<>>
    /\ termsAndConditions = Join(DEFAULT_TERMS, "\n")
    /\ timeZone \in TimeZones

\* Time passes: Date.now() grows.
Tick ==
    /\ Idle
    /\ now < MaxClock
    /\ now' = now + 1
    /\ UNCHANGED <<items, duration, startDate, gstRate, isInterstate,
                   billingParty, handler, invoice>>
    /\ UNCHANGED <<viewVars, gstVars, pdfVars, imgVars,
                   docVars, envVars, layoutVars, callVars>>

AddItem ==
    /\ Idle
    /\ Len(items) < MaxItems
    /\ items' = addItem(formData, renderedLength, now)
    /\ renderedLength' = Len(items')
    /\ UNCHANGED <<duration, startDate, gstRate, isInterstate, billingParty,
                   now, handler, invoice>>
    /\ UNCHANGED <<invoiceNumber, showPreview, previewType>>
    /\ UNCHANGED <<gstVars, pdfVars, imgVars, docVars, envVars,
                   layoutVars, callVars>>

RemoveItem(id) ==
    /\ Idle
    /\ id \in ItemIds
    /\ items' = removeItem(formData, id)
    /\ renderedLength' = Len(items')
    /\ UNCHANGED <<duration, startDate, gstRate, isInterstate, billingParty,
                   now, handler, invoice>>
    /\ UNCHANGED <<invoiceNumber, showPreview, previewType>>
    /\ UNCHANGED <<gstVars, pdfVars, imgVars, docVars, envVars,
                   layoutVars, callVars>>

CopyItem(id) ==
    /\ Idle
    /\ id \in ItemIds
    /\ Len(items) < MaxItems
    /\ items' = copyItem(formData, id, now)
    /\ renderedLength' = Len(items')
    /\ UNCHANGED <<duration, startDate, gstRate, isInterstate, billingParty,
                   now, handler, invoice>>
    /\ UNCHANGED <<invoiceNumber, showPreview, previewType>>
    /\ UNCHANGED <<gstVars, pdfVars, imgVars, docVars, envVars,
                   layoutVars, callVars>>

\* addItem, removeItem and copyItem when the next operation is issued
\* before the form has re-rendered: the state update is applied, the
\* addItem callback of the last render stays in place.
AddItemNoRender ==
    /\ Idle
    /\ Len(items) < MaxItems
    /\ items' = addItem(formData, renderedLength, now)
    /\ UNCHANGED <<duration, startDate, gstRate, isInterstate, billingParty,
                   now, handler, invoice>>
    /\ UNCHANGED <<viewVars, gstVars, pdfVars, imgVars,
                   docVars, envVars, layoutVars, callVars>>

RemoveItemNoRender(id) ==
    /\ Idle
    /\ id \in ItemIds
    /\ items' = removeItem(formData, id)
    /\ UNCHANGED <<duration, startDate, gstRate, isInterstate, billingParty,
                   now, handler, invoice>>
    /\ UNCHANGED <<viewVars, gstVars, pdfVars, imgVars,
                   docVars, envVars, layoutVars, callVars>>

CopyItemNoRender(id) ==
    /\ Idle
    /\ id \in ItemIds
    /\ Len(items) < MaxItems
    /\ items' = copyItem(formData, id, now)
    /\ UNCHANGED <<duration, startDate, gstRate, isInterstate, billingParty,
                   now, handler, invoice>>
    /\ UNCHANGED <<viewVars, gstVars, pdfVars, imgVars,
                   docVars, envVars, layoutVars, callVars>>

\* The form re-renders: useCallback creates a new addItem callback because
\* its dependency formData.items.length has changed.
Render ==
    /\ Idle
    /\ renderedLength # Len(items)
    /\ renderedLength' = Len(items)
    /\ UNCHANGED <<invoiceNumber, showPreview, previewType>>
    /\ UNCHANGED <<formVars, gstVars, pdfVars, imgVars,
                   docVars, envVars, layoutVars, callVars>>

\* The rate input of an item row: updateItem(item.id, 'ratePM', text).
UpdateItemRate(id, text) ==
    /\ Idle
    /\ id \in ItemIds
    /\ items' = updateItem(formData, id, "ratePM", text)
    /\ UNCHANGED <<duration, startDate, gstRate, isInterstate, billingParty,
                   now, handler, invoice>>
    /\ UNCHANGED <<viewVars, gstVars, pdfVars, imgVars,
                   docVars, envVars, layoutVars, callVars>>

\* The amount input of an item row:
\* updateItem(item.id, 'amount', Math.round(Number(text))).
UpdateItemAmount(id, text) ==
    /\ Idle
    /\ id \in ItemIds
    /\ LET n == JsNumber(text)
       IN  items' = updateItem(formData, id, "amount", MathRound(n[1], n[2]))
    /\ UNCHANGED <<duration, startDate, gstRate, isInterstate, billingParty,
                   now, handler, invoice>>
    /\ UNCHANGED <<viewVars, gstVars, pdfVars, imgVars,
                   docVars, envVars, layoutVars, callVars>>

\* The GST rate input: gstRate = Number(text).
SetGstRate(text) ==
    /\ Idle
    /\ JsNumber(text)[2] = 1
    /\ gstRate' = JsNumber(text)[1]
    /\ UNCHANGED <<items, duration, startDate, isInterstate, billingParty,
                   now, handler, invoice>>
    /\ UNCHANGED <<viewVars, gstVars, pdfVars, imgVars,
                   docVars, envVars, layoutVars, callVars>>

\* The interstate checkbox: isInterstate = e.target.checked.
ToggleInterstate ==
    /\ Idle
    /\ isInterstate' = ~isInterstate
    /\ UNCHANGED <<items, duration, startDate, gstRate, billingParty,
                   now, handler, invoice>>
    /\ UNCHANGED <<viewVars, gstVars, pdfVars, imgVars,
                   docVars, envVars, layoutVars, callVars>>

\* The text inputs of the billing party.
UpdateBillingParty(field, value) ==
    /\ Idle
    /\ billingParty' = updateBillingParty(formData, field, value)
    /\ UNCHANGED <<items, duration, startDate, gstRate, isInterstate,
                   now, handler, invoice>>
    /\ UNCHANGED <<viewVars, gstVars, pdfVars, imgVars,
                   docVars, envVars, layoutVars, callVars>>

\* The state select.
SelectState(value) ==
    /\ Idle
    /\ LET next == stateSelectOnChange(formData, value)
       IN  /\ billingParty' = next.billingParty
           /\ isInterstate' = next.isInterstate
    /\ UNCHANGED <<items, duration, startDate, gstRate, now, handler, invoice>>
    /\ UNCHANGED <<viewVars, gstVars, pdfVars, imgVars,
                   docVars, envVars, layoutVars, callVars>>

\* The start date and duration inputs of the period configuration.
UpdateGlobalDateDuration(field, value) ==
    /\ Idle
    /\ LET next == updateGlobalDateDuration(formData, field, value)
       IN  /\ items' = next.items
           /\ duration' = next.duration
           /\ startDate' = next.startDate
    /\ UNCHANGED <<gstRate, isInterstate, billingParty, now, handler, invoice>>
    /\ UNCHANGED <<viewVars, gstVars, pdfVars, imgVars,
                   docVars, envVars, layoutVars, callVars>>

\* The duration input of the PO details: duration = e.target.value, the
\* items are left as they are.
SetDuration(value) ==
    /\ Idle
    /\ duration' = value
    /\ UNCHANGED <<items, startDate, gstRate, isInterstate, billingParty,
                   now, handler, invoice>>
    /\ UNCHANGED <<viewVars, gstVars, pdfVars, imgVars,
                   docVars, envVars, layoutVars, callVars>>

\* The terms textarea: termsAndConditions = e.target.value.
SetTermsAndConditions(value) ==
    /\ Idle
    /\ termsAndConditions' = value
    /\ UNCHANGED <<invoiceDate, creditDays, dueDate>>
    /\ UNCHANGED <<formVars, viewVars, gstVars, pdfVars, imgVars, envVars,
                   layoutVars, callVars>>

\* The invoice date input: updateInvoiceDate(e.target.value).
UpdateInvoiceDate(date) ==
    /\ Idle
    /\ invoiceDate' = date
    /\ dueDate' = calculateDueDate(date, creditDays)
    /\ UNCHANGED <<creditDays, termsAndConditions>>
    /\ UNCHANGED <<formVars, viewVars, gstVars, pdfVars, imgVars, envVars,
                   layoutVars, callVars>>

\* The credit days input: updateCreditDays(Number(e.target.value)).
UpdateCreditDays(days) ==
    /\ Idle
    /\ creditDays' = days
    /\ dueDate' = calculateDueDate(invoiceDate, days)
    /\ UNCHANGED <<invoiceDate, termsAndConditions>>
    /\ UNCHANGED <<formVars, viewVars, gstVars, pdfVars, imgVars, envVars,
                   layoutVars, callVars>>

\* The export buttons are disabled while this is false.
ExportEnabled == Len(items) > 0 /\ billingParty.name # ""

\* handleDownloadPDF: the snapshot is taken and handed to generateInvoicePDF.
HandleDownloadPDF ==
    /\ Idle
    /\ ExportEnabled
    /\ handler' = "handleDownloadPDF"
    /\ invoice' = <<generateInvoice(formData)>>
    /\ UNCHANGED <<items, duration, startDate, gstRate, isInterstate,
                   billingParty, now>>
    /\ UNCHANGED <<viewVars, gstVars, pdfVars, imgVars,
                   docVars, envVars, layoutVars, callVars>>

\* handleDownloadExcel: the snapshot is taken and handed to
\* generateInvoiceExcel.
HandleDownloadExcel ==
    /\ Idle
    /\ ExportEnabled
    /\ handler' = "handleDownloadExcel"
    /\ invoice' = <<generateInvoice(formData)>>
    /\ UNCHANGED <<items, duration, startDate, gstRate, isInterstate,
                   billingParty, now>>
    /\ UNCHANGED <<viewVars, gstVars, pdfVars, imgVars,
                   docVars, envVars, layoutVars, callVars>>

\* handlePreview(type) of the two preview buttons, disabled like the export
\* buttons: the dialog opens.
HandlePreview(type) ==
    /\ Idle
    /\ ExportEnabled
    /\ previewType' = type
    /\ showPreview' = TRUE
    /\ UNCHANGED <<invoiceNumber, renderedLength>>
    /\ UNCHANGED <<formVars, gstVars, pdfVars, imgVars,
                   docVars, envVars, layoutVars, callVars>>

\* handleClosePreview of the close and cancel buttons of the dialog.
HandleClosePreview ==
    /\ Idle
    /\ showPreview
    /\ showPreview' = FALSE
    /\ previewType' = "null"
    /\ UNCHANGED <<invoiceNumber, renderedLength>>
    /\ UNCHANGED <<formVars, gstVars, pdfVars, imgVars,
                   docVars, envVars, layoutVars, callVars>>

\* handleConfirmDownload of the download button of the dialog:
\* handleDownloadPDF() or handleDownloadExcel() by previewType, then
\* handleClosePreview().
HandleConfirmDownload ==
    /\ Idle
    /\ showPreview
    /\ IF previewType = "pdf"
       THEN /\ handler' = "handleDownloadPDF"
            /\ invoice' = <<generateInvoice(formData)>>
       ELSE IF previewType = "excel"
       THEN /\ handler' = "handleDownloadExcel"
            /\ invoice' = <<generateInvoice(formData)>>
       ELSE UNCHANGED <<handler, invoice>>
    /\ showPreview' = FALSE
    /\ previewType' = "null"
    /\ UNCHANGED <<items, duration, startDate, gstRate, isInterstate,
                   billingParty, now>>
    /\ UNCHANGED <<invoiceNumber, renderedLength>>
    /\ UNCHANGED <<gstVars, pdfVars, imgVars, docVars, envVars,
                   layoutVars, callVars>>

\* The handler returns; its local snapshot is gone.
HandlerReturn ==
    /\ ~Idle
    /\ handler' = "idle"
    /\ invoice' = NoInvoice
    /\ UNCHANGED <<items, duration, startDate, gstRate, isInterstate,
                   billingParty, now>>
    /\ UNCHANGED <<viewVars, gstVars, pdfVars, imgVars,
                   docVars, envVars, layoutVars, callVars>>

----------------------------------------------------------------------------
(* calculateGST called on its own *)

GstRates == {0, 5, 12, 18, 28}

GstAmountsHalves == (-MaxHalfAmount..MaxHalfAmount) \cup {2000}

NoResult == <<>>

GstIdle ==
    /\ gstArgs = [amount2 |-> 0, rateArg |-> <<>>]
    /\ gstResult = NoResult

\* The call calculateGST(amount2 / 2) or calculateGST(amount2 / 2, rate).
GstCalled ==
    /\ gstArgs \in [amount2 : GstAmountsHalves,
                    rateArg : {<<>>} \cup {<<r>> : r \in GstRates}]
    /\ gstResult = NoResult

CalculateGSTReturns ==
    /\ gstResult = NoResult
    /\ gstResult' = <<calculateGST(gstArgs.amount2, 2, gstArgs.rateArg)>>
    /\ UNCHANGED gstArgs
    /\ UNCHANGED <<formVars, viewVars, pdfVars, imgVars,
                   docVars, envVars, layoutVars, callVars>>

----------------------------------------------------------------------------
(* src/lib/pdf-export.ts: generateInvoicePDF(invoice)                       *)

maxRowsFirstPage == 13

\* formatCompactCurrency(amount): statement for statement formatCurrency of
\* lib/utils.ts.
formatCompactCurrency(amount) == formatCurrency(amount)

\* A row of tableData: label is the cell of the period column, text the
\* cell of the amount column and value the number behind it (the sno for
\* an item row).
TableRow(kind, label, value, text) ==
    [kind |-> kind, label |-> label, value |-> value, text |-> text]

ItemRow(item) ==
    TableRow("item", "", item.sno, formatCompactCurrency(Number(item.amount, 1)))

\* tableData passing every tax through formatCompactCurrency.
tableData_TaxThroughFormatter(inv) ==
    [i \in DOMAIN inv.items |-> ItemRow(inv.items[i])]
    \o
    << TableRow("total", "SUB TOTAL", inv.subtotal,
                formatCompactCurrency(Number(inv.subtotal, 1))),
       TableRow("total", "Add : CGST @ 9%", inv.cgst,
                formatCompactCurrency(Number(inv.cgst, 1))),
       TableRow("total", "Add : SGST @ 9%", inv.sgst,
                formatCompactCurrency(Number(inv.sgst, 1))),
       TableRow("total", "Add : IGST @ 18%", inv.igst,
                formatCompactCurrency(Number(inv.igst, 1))),
       TableRow("total", "Less : PO", 0, <<"0">>),
       TableRow("total", "GRAND TOTAL", inv.grandTotal,
                formatCompactCurrency(Number(inv.grandTotal, 1))) >>

\* tableData: the item rows followed by the six total rows.
tableData(inv) ==
    [i \in DOMAIN inv.items |-> ItemRow(inv.items[i])]
    \o
    << TableRow("total", "SUB TOTAL", inv.subtotal,
                formatCompactCurrency(Number(inv.subtotal, 1))),
       TableRow("total", "Add : CGST @ 9%", IF inv.cgst > 0 THEN inv.cgst ELSE 0,
                IF inv.cgst > 0 THEN formatCompactCurrency(Number(inv.cgst, 1))
                ELSE <<"0">>),
       TableRow("total", "Add : SGST @ 9%", IF inv.sgst > 0 THEN inv.sgst ELSE 0,
                IF inv.sgst > 0 THEN formatCompactCurrency(Number(inv.sgst, 1))
                ELSE <<"0">>),
       TableRow("total", "Add : IGST @ 18%", IF inv.igst > 0 THEN inv.igst ELSE 0,
                IF inv.igst > 0 THEN formatCompactCurrency(Number(inv.igst, 1))
                ELSE <<"0">>),
       TableRow("total", "Less : PO", 0, <<"0">>),
       TableRow("total", "GRAND TOTAL", inv.grandTotal,
                formatCompactCurrency(Number(inv.grandTotal, 1))) >>

\* tableData.slice(0, k)
SliceTo(s, k) == SubSeq(s, 1, IF k < Len(s) THEN k ELSE Len(s))

\* slice(k) starting one row late.
SliceFrom_OneLate(s, k) == SubSeq(s, k + 2, Len(s))

\* tableData.slice(k)
SliceFrom(s, k) == SubSeq(s, k + 1, Len(s))

PdfIdle ==
    /\ pc = "idle"
    /\ pdfInvoice = NoInvoice
    /\ firstPageData = <<>>
    /\ remainingData = <<>>
    /\ numPages = 0
    /\ curPage = 0
    /\ cfPages = {}
    /\ bfPages = {}
    /\ hfPages = {}
    /\ tablePages = {}
    /\ totalPages = 0
    /\ pageNum = 0
    /\ finalContent = <<>>
    /\ headerArt = "none"
    /\ footerArt = "none"
    /\ saved = 0
    /\ failing = {}
    /\ imgPending = {}
    /\ pageArt = {}
    /\ fileName = <<>>
    /\ tableColumns = <<>>

\* The image files and the art a callback of an image draws.
ImageUrls == {"/header-image.jpg", "/footer-image.jpg"}

ImageUrl(kind) == IF kind = "header" THEN "/header-image.jpg" ELSE "/footer-image.jpg"

\* The images addHeaderFooter(pageNumber) requests: headerImg and footerImg.
addHeaderFooter(pageNumber) == {<<pageNumber, "header">>, <<pageNumber, "footer">>}

\* `Invoice_${invoice.invoiceNumber}.pdf`
PdfFileName(inv) ==
    <<"I", "n", "v", "o", "i", "c", "e", "_">> \o inv.invoiceNumber
        \o <<".", "p", "d", "f">>

\* The invoices handed to generateInvoicePDF: snapshots of forms with
\* 1..MaxPdfItems items.
PdfFormData(n, interstate) ==
    [invoiceNumber |-> <<"I", "N", "V", "7">>,
     invoiceDate |-> Today, dueDate |-> <<>>, creditDays |-> 0,
     termsAndConditions |-> Join(DEFAULT_TERMS, "\n"),
     items |-> [i \in 1..n |-> [INITIAL_ITEM(i, i) EXCEPT !.amount = 50]],
     duration |-> <<"3", "7">>, startDate |-> <<>>, gstRate |-> 18,
     isInterstate |-> interstate,
     billingParty |-> [INITIAL_BILLING_PARTY EXCEPT !.name = "ACME"]]

PdfInvoices ==
    {generateInvoice(PdfFormData(n, b)) : n \in 1..MaxPdfItems, b \in BOOLEAN}

\* generateInvoicePDF has been called: new jsPDF() has one page; each of
\* the two image files either loads or fails to load.
PdfStarted ==
    /\ pc = "generateInvoicePDF"
    /\ firstPageData = <<>>
    /\ remainingData = <<>>
    /\ numPages = 1
    /\ curPage = 1
    /\ cfPages = {}
    /\ bfPages = {}
    /\ hfPages = {}
    /\ tablePages = {}
    /\ totalPages = 0
    /\ pageNum = 0
    /\ finalContent = <<>>
    /\ headerArt = "none"
    /\ footerArt = "none"
    /\ saved = 0
    /\ failing \in SUBSET ImageUrls
    /\ imgPending = {}
    /\ pageArt = {}
    /\ fileName = <<>>
    /\ tableColumns = <<>>

PdfCalled ==
    /\ pdfInvoice \in {<<inv>> : inv \in PdfInvoices}
    /\ PdfStarted

\* The body of generateInvoicePDF: the header image is requested and
\* addHeaderFooter(1) stamps the first page.
GenerateInvoicePDF ==
    /\ pc = "generateInvoicePDF"
    /\ hfPages' = hfPages \cup {1}
    /\ pc' = "headerImg"
    /\ UNCHANGED <<pdfInvoice, firstPageData, remainingData, numPages, curPage,
                   cfPages, bfPages, tablePages, totalPages, pageNum,
                   finalContent, headerArt, footerArt, saved>>
    /\ imgPending' = imgPending \cup addHeaderFooter(1)
    /\ UNCHANGED <<failing, pageArt, fileName>>
    /\ UNCHANGED <<docVars, envVars, layoutVars>>
    /\ UNCHANGED <<formVars, viewVars, gstVars, callVars>>

\* headerImg.onload: the bitmap is drawn, generateRestOfPDF() starts.
HeaderImgOnload ==
    /\ pc = "headerImg"
    /\ ImageUrl("header") \notin failing
    /\ headerArt' = "bitmap"
    /\ pc' = "generateRestOfPDF"
    /\ UNCHANGED <<pdfInvoice, firstPageData, remainingData, numPages, curPage,
                   cfPages, bfPages, hfPages, tablePages, totalPages, pageNum,
                   finalContent, footerArt, saved>>
    /\ UNCHANGED <<formVars, viewVars, gstVars, imgVars,
                   docVars, envVars, layoutVars, callVars>>

\* headerImg.onerror drawing the fallback without going on to
\* generateRestOfPDF().
HeaderImgOnerror_Aborts ==
    /\ pc = "headerImg"
    /\ ImageUrl("header") \in failing
    /\ headerArt' = "fallback"
    /\ pc' = "done"
    /\ UNCHANGED <<pdfInvoice, firstPageData, remainingData, numPages, curPage,
                   cfPages, bfPages, hfPages, tablePages, totalPages, pageNum,
                   finalContent, footerArt, saved>>
    /\ UNCHANGED <<formVars, viewVars, gstVars, imgVars,
                   docVars, envVars, layoutVars, callVars>>

\* headerImg.onerror: the fallback is drawn, generateRestOfPDF() starts.
HeaderImgOnerror ==
    /\ pc = "headerImg"
    /\ ImageUrl("header") \in failing
    /\ headerArt' = "fallback"
    /\ pc' = "generateRestOfPDF"
    /\ UNCHANGED <<pdfInvoice, firstPageData, remainingData, numPages, curPage,
                   cfPages, bfPages, hfPages, tablePages, totalPages, pageNum,
                   finalContent, footerArt, saved>>
    /\ UNCHANGED <<formVars, viewVars, gstVars, imgVars,
                   docVars, envVars, layoutVars, callVars>>

\* columnStyles of the two autoTable calls: cellWidth of column 0..10 (Sr.NO,
\* TOWN, LOCATION, HSN, MEDIA, SIZE, AREA, TYPE, RATE P.M., PERIOD, AMOUNT)
\* as hundredths of availableWidth.
columnStylesFirstPage == <<5, 7, 10, 6, 7, 6, 5, 5, 8, 19, 25>>
columnStylesContinuation == <<5, 7, 10, 6, 7, 6, 5, 5, 8, 19, 25>>

\* generateRestOfPDF up to the first autoTable call: the rows are split and
\* the first-page table is drawn on the current page.
FirstPageTable ==
    /\ pc = "generateRestOfPDF"
    /\ firstPageData' = SliceTo(tableData(pdfInvoice[1]), maxRowsFirstPage)
    /\ remainingData' = SliceFrom(tableData(pdfInvoice[1]), maxRowsFirstPage)
    /\ tablePages' = tablePages \cup {curPage}
    /\ tableColumns' = Append(tableColumns, columnStylesFirstPage)
    /\ pc' = "firstTableDrawn"
    /\ UNCHANGED <<pdfInvoice, numPages, curPage, cfPages, bfPages, hfPages,
                   totalPages, pageNum, finalContent, headerArt, footerArt, saved>>
    /\ UNCHANGED <<formVars, viewVars, gstVars, imgVars,
                   docVars, envVars, callVars>>

\* remainingData.length > 0: 'C/F' on the current page, doc.addPage(),
\* addHeaderFooter(2), the boundary box and 'B/F' on the new page.
CarryForward ==
    /\ pc = "firstTableDrawn"
    /\ Len(remainingData) > 0
    /\ cfPages' = cfPages \cup {curPage}
    /\ numPages' = numPages + 1
    /\ curPage' = numPages + 1
    /\ hfPages' = hfPages \cup {2}
    /\ bfPages' = bfPages \cup {numPages + 1}
    /\ pc' = "continuationTable"
    /\ UNCHANGED <<pdfInvoice, firstPageData, remainingData, tablePages,
                   totalPages, pageNum, finalContent, headerArt, footerArt, saved>>
    /\ imgPending' = imgPending \cup addHeaderFooter(2)
    /\ UNCHANGED <<failing, pageArt, fileName>>
    /\ UNCHANGED <<docVars, envVars, layoutVars>>
    /\ UNCHANGED <<formVars, viewVars, gstVars, callVars>>

\* The continuation autoTable (pageBreak: 'auto'): the renderer lays the
\* rows out on the current page and on as many further pages as it needs,
\* at least one row a page; drawing ends on the last of them.
ContinuationTable(extraPages) ==
    /\ pc = "continuationTable"
    /\ extraPages \in 0..(Len(remainingData) - 1)
    /\ tablePages' = tablePages \cup (curPage..(curPage + extraPages))
    /\ numPages' = numPages + extraPages
    /\ curPage' = curPage + extraPages
    /\ tableColumns' = Append(tableColumns, columnStylesContinuation)
    /\ pc' = "tablesDrawn"
    /\ UNCHANGED <<pdfInvoice, firstPageData, remainingData, cfPages, bfPages,
                   hfPages, totalPages, pageNum, finalContent, headerArt,
                   footerArt, saved>>
    /\ UNCHANGED <<formVars, viewVars, gstVars, imgVars,
                   docVars, envVars, callVars>>

\* remainingData.length = 0: nothing is carried forward.
NoContinuation ==
    /\ pc = "firstTableDrawn"
    /\ Len(remainingData) = 0
    /\ pc' = "tablesDrawn"
    /\ UNCHANGED <<pdfInvoice, firstPageData, remainingData, numPages, curPage,
                   cfPages, bfPages, hfPages, tablePages, totalPages, pageNum,
                   finalContent, headerArt, footerArt, saved>>
    /\ UNCHANGED <<formVars, viewVars, gstVars, imgVars,
                   docVars, envVars, layoutVars, callVars>>

\* CountPages entering the stamping loop only with more than three pages.
CountPages_LoopFromFour ==
    /\ pc = "tablesDrawn"
    /\ totalPages' = numPages
    /\ IF numPages > 3
       THEN /\ pageNum' = 3
            /\ pc' = "stampLoop"
            /\ UNCHANGED curPage
       ELSE /\ curPage' = numPages
            /\ pc' = "finalContent"
            /\ UNCHANGED pageNum
    /\ UNCHANGED <<pdfInvoice, firstPageData, remainingData, numPages, cfPages,
                   bfPages, hfPages, tablePages, finalContent, headerArt,
                   footerArt, saved>>
    /\ UNCHANGED <<formVars, viewVars, gstVars, imgVars,
                   docVars, envVars, layoutVars, callVars>>

\* totalPages = getNumberOfPages(); with more than two pages the stamping
\* loop starts at page 3, otherwise doc.setPage(totalPages).
CountPages ==
    /\ pc = "tablesDrawn"
    /\ totalPages' = numPages
    /\ IF numPages > 2
       THEN /\ pageNum' = 3
            /\ pc' = "stampLoop"
            /\ UNCHANGED curPage
       ELSE /\ curPage' = numPages
            /\ pc' = "finalContent"
            /\ UNCHANGED pageNum
    /\ UNCHANGED <<pdfInvoice, firstPageData, remainingData, numPages, cfPages,
                   bfPages, hfPages, tablePages, finalContent, headerArt,
                   footerArt, saved>>
    /\ UNCHANGED <<formVars, viewVars, gstVars, imgVars,
                   docVars, envVars, layoutVars, callVars>>

\* One iteration of the loop over pages 3..totalPages.
StampPage ==
    /\ pc = "stampLoop"
    /\ pageNum <= totalPages
    /\ curPage' = pageNum
    /\ hfPages' = hfPages \cup {pageNum}
    /\ bfPages' = bfPages \cup {pageNum}
    /\ cfPages' = IF pageNum < totalPages THEN cfPages \cup {pageNum} ELSE cfPages
    /\ pageNum' = pageNum + 1
    /\ UNCHANGED <<pc, pdfInvoice, firstPageData, remainingData, numPages,
                   tablePages, totalPages, finalContent, headerArt, footerArt,
                   saved>>
    /\ imgPending' = imgPending \cup addHeaderFooter(pageNum)
    /\ UNCHANGED <<failing, pageArt, fileName>>
    /\ UNCHANGED <<docVars, envVars, layoutVars>>
    /\ UNCHANGED <<formVars, viewVars, gstVars, callVars>>

\* The loop ends: doc.setPage(totalPages).
StampDone ==
    /\ pc = "stampLoop"
    /\ pageNum > totalPages
    /\ curPage' = totalPages
    /\ pc' = "finalContent"
    /\ UNCHANGED <<pdfInvoice, firstPageData, remainingData, numPages, cfPages,
                   bfPages, hfPages, tablePages, totalPages, pageNum,
                   finalContent, headerArt, footerArt, saved>>
    /\ UNCHANGED <<formVars, viewVars, gstVars, imgVars,
                   docVars, envVars, layoutVars, callVars>>

\* Amount in words, terms and conditions and the signature block are drawn
\* on the current page; the footer image is requested.
FinalContent ==
    /\ pc = "finalContent"
    /\ finalContent' = Append(finalContent, curPage)
    /\ pc' = "footerImg"
    /\ UNCHANGED <<pdfInvoice, firstPageData, remainingData, numPages, curPage,
                   cfPages, bfPages, hfPages, tablePages, totalPages, pageNum,
                   headerArt, footerArt, saved>>
    /\ UNCHANGED <<formVars, viewVars, gstVars, imgVars,
                   docVars, envVars, layoutVars, callVars>>

\* footerImg.onload: the bitmap is drawn and the document saved.
FooterImgOnload ==
    /\ pc = "footerImg"
    /\ ImageUrl("footer") \notin failing
    /\ footerArt' = "bitmap"
    /\ saved' = saved + 1
    /\ pc' = "done"
    /\ UNCHANGED <<pdfInvoice, firstPageData, remainingData, numPages, curPage,
                   cfPages, bfPages, hfPages, tablePages, totalPages, pageNum,
                   finalContent, headerArt>>
    /\ fileName' = PdfFileName(pdfInvoice[1])
    /\ UNCHANGED <<failing, imgPending, pageArt>>
    /\ UNCHANGED <<docVars, envVars, layoutVars>>
    /\ UNCHANGED <<formVars, viewVars, gstVars, callVars>>

\* footerImg.onerror: the fallback is drawn and the document saved.
FooterImgOnerror ==
    /\ pc = "footerImg"
    /\ ImageUrl("footer") \in failing
    /\ footerArt' = "fallback"
    /\ saved' = saved + 1
    /\ pc' = "done"
    /\ UNCHANGED <<pdfInvoice, firstPageData, remainingData, numPages, curPage,
                   cfPages, bfPages, hfPages, tablePages, totalPages, pageNum,
                   finalContent, headerArt>>
    /\ fileName' = PdfFileName(pdfInvoice[1])
    /\ UNCHANGED <<failing, imgPending, pageArt>>
    /\ UNCHANGED <<docVars, envVars, layoutVars>>
    /\ UNCHANGED <<formVars, viewVars, gstVars, callVars>>

\* No synchronous code of generateInvoicePDF is running: the callbacks of
\* pending images can fire.
CallbacksCanFire == pc \in {"headerImg", "footerImg", "done"}

\* The art a callback of an image of addHeaderFooter(p) draws: the drawing
\* calls go to the page that is current when the callback fires.
Drawing(p, kind, art) ==
    [page |-> p, kind |-> kind, art |-> art, drawnOn |-> curPage,
     afterSave |-> saved > 0]

\* headerImg.onload / footerImg.onload of addHeaderFooter(p): doc.addImage.
PageImgOnload(p, kind) ==
    /\ CallbacksCanFire
    /\ <<p, kind>> \in imgPending
    /\ ImageUrl(kind) \notin failing
    /\ imgPending' = imgPending \ {<<p, kind>>}
    /\ pageArt' = pageArt \cup {Drawing(p, kind, "bitmap")}
    /\ UNCHANGED <<failing, fileName>>
    /\ UNCHANGED <<docVars, envVars, layoutVars>>
    /\ UNCHANGED <<formVars, viewVars, gstVars, pdfVars, callVars>>

\* headerImg.onerror / footerImg.onerror of addHeaderFooter(p):
\* createFallbackHeader() / createFallbackFooter().
PageImgOnerror(p, kind) ==
    /\ CallbacksCanFire
    /\ <<p, kind>> \in imgPending
    /\ ImageUrl(kind) \in failing
    /\ imgPending' = imgPending \ {<<p, kind>>}
    /\ pageArt' = pageArt \cup {Drawing(p, kind, "fallback")}
    /\ UNCHANGED <<failing, fileName>>
    /\ UNCHANGED <<docVars, envVars, layoutVars>>
    /\ UNCHANGED <<formVars, viewVars, gstVars, pdfVars, callVars>>

\* numberToWords called on its own.
\* a crore group of 213 keeps the numbers below 2^31
CroreGroups == {0, 1, 12, 213}
LakhGroups == {0, 1, 23, 99}
ThousandGroups == {0, 5, 45, 50}
UnitGroups == {0, 7, 100, 678}

WordsInputs ==
    (0..MaxWordsNumber) \cup
    {c * 10000000 + l * 100000 + t * 1000 + u :
        c \in CroreGroups, l \in LakhGroups, t \in ThousandGroups, u \in UnitGroups}

WordsCalled ==
    /\ callee = "numberToWords"
    /\ callArgs \in {<<n>> : n \in WordsInputs}
    /\ callResult = <<>>

NumberToWordsReturns ==
    /\ callee = "numberToWords"
    /\ callResult = <<>>
    /\ callResult' = <<numberToWords(callArgs[1])>>
    /\ UNCHANGED <<callee, callArgs>>
    /\ UNCHANGED <<formVars, viewVars, gstVars, pdfVars, imgVars,
                   docVars, envVars, layoutVars>>

\* getStateFromGSTIN called on its own: every text of digits and 'A' up to
\* MaxGstinLen characters, and some full GSTINs.
GstinChars == Digits \cup {"A"}

RECURSIVE TextsUpTo(_, _)
TextsUpTo(chars, k) ==
    IF k = 0 THEN {<<>>}
    ELSE LET shorter == TextsUpTo(chars, k - 1)
         IN  shorter \cup {Append(t, c) : t \in shorter, c \in chars}

GstinTexts ==
    TextsUpTo(GstinChars, MaxGstinLen) \cup
    {<<"2", "2", "A", "K", "J", "P", "D", "0", "9", "4", "1", "N", "4", "Z", "8">>,
     <<"2", "7", "A", "A", "A", "A", "A", "0", "0", "0", "0", "A", "1", "Z", "5">>,
     <<"2", "5", "A", "A", "A", "A", "A", "0", "0", "0", "0", "A", "1", "Z", "5">>,
     <<"A", "2", "2">>}

GstinCalled ==
    /\ callee = "getStateFromGSTIN"
    /\ callArgs \in {<<g>> : g \in GstinTexts}
    /\ callResult = <<>>

GetStateFromGSTINReturns ==
    /\ callee = "getStateFromGSTIN"
    /\ callResult = <<>>
    /\ callResult' = <<getStateFromGSTIN(callArgs[1])>>
    /\ UNCHANGED <<callee, callArgs>>
    /\ UNCHANGED <<formVars, viewVars, gstVars, pdfVars, imgVars,
                   docVars, envVars, layoutVars>>

\* formatCurrency and formatCompactCurrency called on their own.
CurrencyAmounts ==
    {Number(q, 4) : q \in (-MaxQuarterAmount)..MaxQuarterAmount}
    \cup {Number(n, 1) : n \in {999, 1000, 12345, 100000, 1234567, 123456789, -1234567}}
    \cup {String(t) : t \in {<<>>, <<"0">>, <<"3", "0">>, <<"0", ".", "4">>,
                              <<"1", "5", "0", "0", "0", "0">>, <<"a", "b", "c">>}}

CurrencyCalled ==
    /\ callee \in {"formatCurrency", "formatCompactCurrency"}
    /\ callArgs \in {<<a>> : a \in CurrencyAmounts}
    /\ callResult = <<>>

FormatCurrencyReturns ==
    /\ callee = "formatCurrency"
    /\ callResult = <<>>
    /\ callResult' = <<formatCurrency(callArgs[1])>>
    /\ UNCHANGED <<callee, callArgs>>
    /\ UNCHANGED <<formVars, viewVars, gstVars, pdfVars, imgVars,
                   docVars, envVars, layoutVars>>

FormatCompactCurrencyReturns ==
    /\ callee = "formatCompactCurrency"
    /\ callResult = <<>>
    /\ callResult' = <<formatCompactCurrency(callArgs[1])>>
    /\ UNCHANGED <<callee, callArgs>>
    /\ UNCHANGED <<formVars, viewVars, gstVars, pdfVars, imgVars,
                   docVars, envVars, layoutVars>>

\* generateInvoiceExcel called on its own, with snapshots of forms of
\* 0..MaxExcelItems items.
ExcelFormData(n, amount, rate, interstate) ==
    [invoiceNumber |-> <<"I", "N", "V", "7">>,
     invoiceDate |-> Today, dueDate |-> <<>>, creditDays |-> 0,
     termsAndConditions |-> Join(DEFAULT_TERMS, "\n"),
     items |-> [i \in 1..n |-> [INITIAL_ITEM(i, i) EXCEPT !.amount = amount]],
     duration |-> <<"3", "7">>, startDate |-> <<>>, gstRate |-> rate,
     isInterstate |-> interstate,
     billingParty |-> [INITIAL_BILLING_PARTY EXCEPT !.name = "ACME"]]

ExcelTerms ==
    {<<>>, << <<"Payment within 30 days">>, <<"Subject to Raipur jurisdiction">> >>}

ExcelInvoices ==
    {[termsAndConditions |-> terms]
        @@ generateInvoice(ExcelFormData(n, amount, rate, interstate)) :
        n \in 0..MaxExcelItems, amount \in {0, 50, -50, 100}, rate \in {0, 5, 18},
        interstate \in BOOLEAN, terms \in ExcelTerms}

ExcelCalled ==
    /\ callee = "generateInvoiceExcel"
    /\ callArgs \in {<<inv>> : inv \in ExcelInvoices}
    /\ callResult = <<>>

GenerateInvoiceExcelReturns ==
    /\ callee = "generateInvoiceExcel"
    /\ callResult = <<>>
    /\ callResult' = <<generateInvoiceExcel(callArgs[1])>>
    /\ UNCHANGED <<callee, callArgs>>
    /\ UNCHANGED <<formVars, viewVars, gstVars, pdfVars, imgVars,
                   docVars, envVars, layoutVars>>

\* calculateAmountFromDuration called on its own: integer rates and
\* durations as the texts of the inputs, and missing or non-numeric texts.
InvalidTexts == {<<>>, <<"a">>, <<" ">>}
AmountRateTexts == {toString(r) : r \in 0..MaxRate} \cup InvalidTexts
AmountDurationTexts == {toString(d) : d \in 0..MaxDuration} \cup InvalidTexts

AmountCalled ==
    /\ callee = "calculateAmountFromDuration"
    /\ callArgs \in {<<r, d>> : r \in AmountRateTexts, d \in AmountDurationTexts}
    /\ callResult = <<>>

CalculateAmountFromDurationReturns ==
    /\ callee = "calculateAmountFromDuration"
    /\ callResult = <<>>
    /\ callResult' = <<calculateAmountFromDuration(callArgs[1], callArgs[2])>>
    /\ UNCHANGED <<callee, callArgs>>
    /\ UNCHANGED <<formVars, viewVars, gstVars, pdfVars, imgVars,
                   docVars, envVars, layoutVars>>

\* calculatePeriodFromDates called on its own: start dates around month
\* and year ends, with and without a leap day, and '' for no date.
PeriodStarts ==
    {<<>>, <<2024, 1, 15>>, <<2023, 12, 20>>, <<2024, 2, 1>>, <<2023, 2, 10>>,
     <<2024, 12, 31>>, <<2024, 3, 1>>}

PeriodCalled ==
    /\ callee = "calculatePeriodFromDates"
    /\ callArgs \in {<<s, d>> : s \in PeriodStarts, d \in AmountDurationTexts}
    /\ callResult = <<>>

CalculatePeriodFromDatesReturns ==
    /\ callee = "calculatePeriodFromDates"
    /\ callResult = <<>>
    /\ callResult' = <<calculatePeriodFromDates(callArgs[1], callArgs[2])>>
    /\ UNCHANGED <<callee, callArgs>>
    /\ UNCHANGED <<formVars, viewVars, gstVars, pdfVars, imgVars, docVars, envVars,
                   layoutVars>>

\* No helper is called on its own.
CallIdle ==
    /\ callee = "none"
    /\ callArgs = <<>>
    /\ callResult = <<>>

----------------------------------------------------------------------------
(* Specifications *)

\* The form: item list, GST settings and the export of a snapshot.
Init == FormInit /\ GstIdle /\ PdfIdle /\ CallIdle

Next ==
    \/ Tick
    \/ AddItem
    \/ \E id \in 0..MaxClock : RemoveItem(id)
    \/ \E id \in 0..MaxClock : CopyItem(id)
    \/ \E id \in 0..MaxClock, text \in RateTexts : UpdateItemRate(id, text)
    \/ \E id \in 0..MaxClock, text \in AmountTexts : UpdateItemAmount(id, text)
    \/ \E text \in DurationTexts : UpdateGlobalDateDuration("duration", text)
    \/ \E text \in DurationTexts : SetDuration(text)
    \/ \E text \in GstRateTexts : SetGstRate(text)
    \/ ToggleInterstate
    \/ \E value \in NameInputs : UpdateBillingParty("name", value)
    \/ HandleDownloadPDF
    \/ HandlerReturn

\* No operation of Next reads a date (the start date stays empty and the due
\* date is never computed), so the time zone is fixed to the one of the
\* invoices' home state.
InitHome == Init /\ timeZone = "Asia/Kolkata"

Spec == InitHome /\ [][Next]_vars

\* The billing party and the interstate flag.
NextParty ==
    \/ \E value \in NameInputs : UpdateBillingParty("name", value)
    \/ \E value \in CityInputs : UpdateBillingParty("city", value)
    \/ \E value \in GstinInputs : UpdateBillingParty("gstin", value)
    \/ \E value \in StateInputs : SelectState(value)
    \/ ToggleInterstate

SpecParty == Init /\ [][NextParty]_vars

\* The item list when operations can be issued before the form re-renders.
NextItems ==
    \/ Tick
    \/ AddItemNoRender
    \/ \E id \in 0..MaxClock : RemoveItemNoRender(id)
    \/ \E id \in 0..MaxClock : CopyItemNoRender(id)
    \/ \E id \in 0..MaxClock, text \in RateTexts : UpdateItemRate(id, text)
    \/ Render

SpecItems == Init /\ [][NextItems]_vars

\* The export buttons and the preview dialog.  The dialog is an overlay of
\* the form: the inputs and buttons of the form stay mounted and enabled
\* while it is open.
PreviewTypes == {"pdf", "excel"}

NextExport ==
    \/ Tick
    \/ AddItem
    \/ \E id \in 0..MaxClock : RemoveItem(id)
    \/ \E value \in NameInputs : UpdateBillingParty("name", value)
    \/ \E type \in PreviewTypes : HandlePreview(type)
    \/ HandleClosePreview
    \/ HandleConfirmDownload
    \/ HandleDownloadPDF
    \/ HandleDownloadExcel
    \/ HandlerReturn

SpecExport == Init /\ [][NextExport]_vars

\* The period configuration: the start date and the two duration inputs.
NextPeriod ==
    \/ Tick
    \/ AddItem
    \/ \E id \in 0..MaxClock, text \in RateTexts : UpdateItemRate(id, text)
    \/ \E date \in StartDates : UpdateGlobalDateDuration("startDate", date)
    \/ \E text \in DurationTexts : UpdateGlobalDateDuration("duration", text)
    \/ \E text \in DurationTexts : SetDuration(text)

SpecPeriod == Init /\ [][NextPeriod]_vars

\* The rate input of the item rows next to the duration input.
NextRate ==
    \/ Tick
    \/ AddItem
    \/ \E id \in 0..MaxClock, text \in RateEdits : UpdateItemRate(id, text)
    \/ \E text \in DurationTexts : UpdateGlobalDateDuration("duration", text)

SpecRate == Init /\ [][NextRate]_vars

\* calculateAmountFromDuration on its own.
InitAmount == FormInit /\ GstIdle /\ PdfIdle /\ AmountCalled

NextAmount == CalculateAmountFromDurationReturns

SpecAmount == InitAmount /\ [][NextAmount]_vars

\* calculatePeriodFromDates on its own.
InitPeriodCall == FormInit /\ GstIdle /\ PdfIdle /\ PeriodCalled

NextPeriodCall == CalculatePeriodFromDatesReturns

SpecPeriodCall == InitPeriodCall /\ [][NextPeriodCall]_vars

\* The period configuration with a short item list: the derivations are
\* re-applied with the values the form already has.
AddItemShortList ==
    /\ Len(items) < MaxIdemItems
    /\ AddItem

NextIdem ==
    \/ Tick
    \/ AddItemShortList
    \/ \E id \in 0..MaxClock, text \in RateTexts : UpdateItemRate(id, text)
    \/ \E date \in StartDates : UpdateGlobalDateDuration("startDate", date)
    \/ \E text \in DurationTexts : UpdateGlobalDateDuration("duration", text)
    \/ \E text \in DurationTexts : SetDuration(text)

SpecIdem == Init /\ [][NextIdem]_vars

\* The terms field and the snapshot of an export.
TermsTexts == TextsUpTo(TermsChars, MaxTermsLen)

NextTerms ==
    \/ AddItemShortList
    \/ \E value \in NameInputs : UpdateBillingParty("name", value)
    \/ \E value \in TermsTexts : SetTermsAndConditions(value)
    \/ HandleDownloadPDF
    \/ HandlerReturn

SpecTerms == Init /\ [][NextTerms]_vars

\* The invoice date, the credit days and the due date.
NextDue ==
    \/ \E date \in InvoiceDates : UpdateInvoiceDate(date)
    \/ \E days \in CreditDaysInputs : UpdateCreditDays(days)
    \/ AddItemShortList
    \/ \E value \in NameInputs : UpdateBillingParty("name", value)
    \/ \E text \in DurationTexts : UpdateGlobalDateDuration("duration", text)

SpecDue == Init /\ [][NextDue]_vars

\* calculateGST on its own.
InitGST == FormInit /\ GstCalled /\ PdfIdle /\ CallIdle

NextGST == CalculateGSTReturns

SpecGST == InitGST /\ [][NextGST]_vars

\* numberToWords on its own.
InitWords == FormInit /\ GstIdle /\ PdfIdle /\ WordsCalled

NextWords == NumberToWordsReturns

SpecWords == InitWords /\ [][NextWords]_vars

\* getStateFromGSTIN on its own.
InitGstin == FormInit /\ GstIdle /\ PdfIdle /\ GstinCalled

NextGstin == GetStateFromGSTINReturns

SpecGstin == InitGstin /\ [][NextGstin]_vars

\* formatCurrency and formatCompactCurrency on their own.
InitCurrency == FormInit /\ GstIdle /\ PdfIdle /\ CurrencyCalled

NextCurrency == FormatCurrencyReturns \/ FormatCompactCurrencyReturns

SpecCurrency == InitCurrency /\ [][NextCurrency]_vars

\* generateInvoiceExcel on its own.
InitExcel == FormInit /\ GstIdle /\ PdfIdle /\ ExcelCalled

NextExcel == GenerateInvoiceExcelReturns

SpecExcel == InitExcel /\ [][NextExcel]_vars

\* generateInvoicePDF on its own.
InitPDF == FormInit /\ GstIdle /\ PdfCalled /\ CallIdle

NextPDF ==
    \/ GenerateInvoicePDF
    \/ HeaderImgOnload
    \/ HeaderImgOnerror
    \/ FirstPageTable
    \/ CarryForward
    \/ \E extraPages \in 0..MaxPdfItems : ContinuationTable(extraPages)
    \/ NoContinuation
    \/ CountPages
    \/ StampPage
    \/ StampDone
    \/ FinalContent
    \/ FooterImgOnload
    \/ FooterImgOnerror

SpecPDF == InitPDF /\ [][NextPDF]_vars

\* generateInvoicePDF with the callbacks of the images of every page.
ImgInvoiceNumbers == {<<"I", "N", "V", "7">>, <<"I", "N", "V", "4", "2">>}

ImgInvoices ==
    {[generateInvoice(PdfFormData(n, FALSE)) EXCEPT !.invoiceNumber = number] :
        n \in 1..MaxImgItems, number \in ImgInvoiceNumbers}

InitImages ==
    /\ FormInit /\ GstIdle /\ CallIdle
    /\ pdfInvoice \in {<<inv>> : inv \in ImgInvoices}
    /\ PdfStarted

Pages == 1..(MaxImgItems + 6)
ImgKinds == {"header", "footer"}

NextImages ==
    \/ NextPDF
    \/ \E p \in Pages, kind \in ImgKinds : PageImgOnload(p, kind)
    \/ \E p \in Pages, kind \in ImgKinds : PageImgOnerror(p, kind)

SpecImages == InitImages /\ [][NextImages]_vars

\* Every requested image eventually fires its load or its error callback,
\* and the synchronous code runs to its end.
ImagesFairness ==
    /\ WF_vars(GenerateInvoicePDF)
    /\ WF_vars(HeaderImgOnload \/ HeaderImgOnerror)
    /\ WF_vars(FirstPageTable \/ CarryForward \/ NoContinuation \/ CountPages
                 \/ StampPage \/ StampDone \/ FinalContent
                 \/ \E extraPages \in 0..MaxPdfItems : ContinuationTable(extraPages))
    /\ WF_vars(FooterImgOnload \/ FooterImgOnerror)
    /\ \A p \in Pages, kind \in ImgKinds :
           WF_vars(PageImgOnload(p, kind) \/ PageImgOnerror(p, kind))

SpecImagesFair == SpecImages /\ ImagesFairness

----------------------------------------------------------------------------
(* Properties of the invoice snapshot (specification Spec) *)

Snapshot == invoice[1]
SnapshotTaken == invoice # NoInvoice

\* C1: in every snapshot produced by generateInvoice, subtotal is the rounded
\* sum of the item amounts and grandTotal = subtotal + cgst + sgst + igst.
C1_GrandTotalIsSumOfLines ==
    SnapshotTaken =>
        /\ Snapshot.subtotal = SumAmounts(Snapshot.items)
        /\ Snapshot.grandTotal =
               Snapshot.subtotal + Snapshot.cgst + Snapshot.sgst + Snapshot.igst

C3_TaxRouting ==
    SnapshotTaken =>
        IF isInterstate
        THEN /\ Snapshot.cgst = 0
             /\ Snapshot.sgst = 0
             /\ 100 * Snapshot.igst - 50 <= Snapshot.subtotal * gstRate
             /\ Snapshot.subtotal * gstRate < 100 * Snapshot.igst + 50
        ELSE /\ Snapshot.igst = 0
             /\ Snapshot.cgst = Snapshot.sgst

C3_Witness ==
    /\ SnapshotTaken
    /\ isInterstate
    /\ Snapshot.igst = 9
    /\ Snapshot.subtotal = 50

----------------------------------------------------------------------------
(* Properties of the billing party (specification SpecParty) *)

----------------------------------------------------------------------------
(* Properties of calculateGST (specification SpecGST) *)

GstReturned == gstResult # NoResult
GstRateUsed == IF gstArgs.rateArg = <<>> THEN 18 ELSE gstArgs.rateArg[1]

\* x = round(num / den) for den > 0, stated without the rounding operator:
\* x - 1/2 <= num / den < x + 1/2.
IsRounded(x, num, den) ==
    /\ 2 * den * x - den <= 2 * num
    /\ 2 * num < 2 * den * x + den

\* C5: the two tax paths give the same tax total: cgst + sgst = igst, and
\* amount + cgst + sgst = amount + igst = total.
C5_BothPathsSameTotal ==
    GstReturned =>
        LET r == gstResult[1]
            a == r.total - r.igst
        IN  /\ r.cgst + r.sgst = r.igst
            /\ a + r.cgst + r.sgst = r.total

\* C6: calculateGST(amount, rate) is {cgst: round(g/2), sgst: round(g/2),
\* igst: g, total: a + g} with a = round(amount), g = round(a * rate / 100)
\* and rate 18 when omitted; calculateGST(1000, 18) is
\* {cgst: 90, sgst: 90, igst: 180, total: 1180}.
C6_CalculateGSTReference ==
    GstReturned =>
        LET r == gstResult[1]
            a == r.total - r.igst
        IN  /\ IsRounded(a, gstArgs.amount2, 2)
            /\ IsRounded(r.igst, a * GstRateUsed, 100)
            /\ IsRounded(r.cgst, r.igst, 2)
            /\ r.sgst = r.cgst
            /\ (gstArgs.amount2 = 2000 /\ GstRateUsed = 18) =>
                   r = [cgst |-> 90, sgst |-> 90, igst |-> 180, total |-> 1180]

C6_Witness ==
    /\ GstReturned
    /\ gstArgs = [amount2 |-> 2000, rateArg |-> <<18>>]
    /\ gstResult[1].total = 1180

\* C7 as stated: for every amount <= 0 and every rate the tax is zero.
C7_NonPositiveAmountZeroTax ==
    (GstReturned /\ gstArgs.amount2 <= 0) =>
        /\ gstResult[1].cgst = 0
        /\ gstResult[1].sgst = 0
        /\ gstResult[1].igst = 0

\* C7 as amended: an amount that rounds to 0 yields zero tax for every rate;
\* a negative amount is taxed like a positive one, so for a rate >= 0 its
\* taxes are negative or zero, not forced to zero.
C7_ZeroAmountZeroTax ==
    GstReturned =>
        LET r == gstResult[1]
        IN  /\ IsRounded(0, gstArgs.amount2, 2) =>
                   (r.cgst = 0 /\ r.sgst = 0 /\ r.igst = 0)
            /\ (gstArgs.amount2 <= 0 /\ GstRateUsed >= 0) =>
                   (r.cgst <= 0 /\ r.sgst <= 0 /\ r.igst <= 0)

C7_Witness ==
    /\ GstReturned
    /\ gstArgs.amount2 = -100
    /\ GstRateUsed = 18
    /\ gstResult[1].igst = -9

----------------------------------------------------------------------------
(* Properties of generateInvoicePDF (specification SpecPDF) *)

PdfItemCount == Len(pdfInvoice[1].items)
TablesSplit == pc \notin {"generateInvoicePDF", "headerImg", "generateRestOfPDF"}
TablesDrawn == pc \in {"tablesDrawn", "stampLoop", "finalContent", "footerImg", "done"}
Min(a, b) == IF a < b THEN a ELSE b
Max(a, b) == IF a > b THEN a ELSE b

\* C8: with n items there are n + 6 rows; the first-page table gets the
\* first min(n + 6, 13) of them and one continuation table the other
\* max(0, n - 7), in order, none lost or duplicated; 'Carried Forward' on
\* page 1 and 'Brought Forward' on page 2 are emitted iff n >= 8.
C8_PaginationSplit ==
    LET n == PdfItemCount
        rows == firstPageData \o remainingData
    IN  /\ TablesSplit =>
            /\ Len(rows) = n + 6
            /\ Len(firstPageData) = Min(n + 6, 13)
            /\ Len(remainingData) = Max(0, n - 7)
            /\ \A i \in 1..n : rows[i].kind = "item" /\ rows[i].value = i
            /\ \A i \in (n + 1)..(n + 6) : rows[i].kind = "total"
            /\ <<rows[n + 1].label, rows[n + 6].label>> = <<"SUB TOTAL", "GRAND TOTAL">>
            /\ (n = 7) => remainingData = <<>>
            /\ (n = 8) => Len(remainingData) = 1
        /\ TablesDrawn =>
            /\ (1 \in cfPages) <=> (n >= 8)
            /\ (2 \in bfPages) <=> (n >= 8)
            /\ (n < 8) => (cfPages = {} /\ bfPages = {} /\ numPages = 1)

C8_Witness ==
    /\ pc = "done"
    /\ PdfItemCount = 8
    /\ Len(firstPageData) = 13
    /\ Len(remainingData) = 1
    /\ cfPages = {1}
    /\ bfPages = {2}

\* C9: for every page count N >= 2 every page after the first carries
\* 'Brought Forward' and every page before the last carries 'Carried
\* Forward'; the last page carries no 'Carried Forward'.
C9_MarkersOnEveryPage ==
    (pc = "done" /\ numPages >= 2) =>
        /\ bfPages = 2..numPages
        /\ cfPages = 1..(numPages - 1)

\* C10: the final content is emitted exactly once, after all table pages
\* are laid out and pages 3..N are stamped, with the last page N current.
C10_FinalContentOnceOnLastPage ==
    /\ Len(finalContent) <= 1
    /\ (pc \in {"footerImg", "done"}) <=> (Len(finalContent) = 1)
    /\ finalContent # <<>> =>
        /\ finalContent[1] = numPages
        /\ curPage = numPages
        /\ tablePages = 1..numPages
        /\ Len(firstPageData) + Len(remainingData) = PdfItemCount + 6
        /\ \A p \in 3..numPages : p \in hfPages /\ p \in bfPages

C10_Witness ==
    /\ pc = "done"
    /\ numPages = 4
    /\ finalContent = <<4>>
    /\ saved = 1

----------------------------------------------------------------------------
(* Properties of the image callbacks (specifications SpecImages and          *)
(* SpecImagesFair)                                                           *)

\* The art the callback of an image of the given kind draws.
ExpectedArt(kind) == IF ImageUrl(kind) \in failing THEN "fallback" ELSE "bitmap"

\* C11: when every requested image fires its load or its error callback,
\* every call of generateInvoicePDF saves the document, exactly once, as
\* Invoice_<invoiceNumber>.pdf, whichever of the image files fail to load; an
\* image that fails draws its fallback where the bitmap would be drawn and
\* generation goes on.
C11_SavedOnceUnderAnyFailure ==
    /\ [](saved <= 1)
    /\ [](saved = 1 =>
            /\ fileName = PdfFileName(pdfInvoice[1])
            /\ headerArt = ExpectedArt("header")
            /\ footerArt = ExpectedArt("footer"))
    /\ [](\A d \in pageArt : d.art = ExpectedArt(d.kind))
    /\ <>[](saved = 1 /\ pc = "done" /\ imgPending = {})

C11_Witness ==
    /\ saved = 1
    /\ failing = ImageUrls
    /\ headerArt = "fallback"
    /\ footerArt = "fallback"
    /\ fileName = <<"I", "n", "v", "o", "i", "c", "e", "_", "I", "N", "V", "4", "2",
                    ".", "p", "d", "f">>
    /\ imgPending = {}
    /\ numPages = 3

\* C12: in every order in which the callbacks of the requested header and
\* footer images fire, the art requested for page p is drawn on page p and
\* before the document is saved.
C12_ArtOnItsPageBeforeSave ==
    \A d \in pageArt : d.drawnOn = d.page /\ ~d.afterSave

----------------------------------------------------------------------------
(* Properties of the item list (specification SpecItems) *)

\* C13: after any sequence of addItem, copyItem and removeItem operations,
\* several of them before a re-render included, the sequence numbers are
\* exactly 1..N in list order: each item's sno is its position.
C13_SequenceNumbersArePositions ==
    \A i \in DOMAIN items : items[i].sno = i

----------------------------------------------------------------------------
(* Properties of numberToWords (specification SpecWords) *)

Returned(name) == callee = name /\ callResult # <<>>

\* The words of the Indian-grouping reference conversion.
RefOnes(d) ==
    CASE d = 1 -> "One" [] d = 2 -> "Two" [] d = 3 -> "Three" [] d = 4 -> "Four"
      [] d = 5 -> "Five" [] d = 6 -> "Six" [] d = 7 -> "Seven"
      [] d = 8 -> "Eight" [] d = 9 -> "Nine"

RefTeens(d) ==
    CASE d = 10 -> "Ten" [] d = 11 -> "Eleven" [] d = 12 -> "Twelve"
      [] d = 13 -> "Thirteen" [] d = 14 -> "Fourteen" [] d = 15 -> "Fifteen"
      [] d = 16 -> "Sixteen" [] d = 17 -> "Seventeen" [] d = 18 -> "Eighteen"
      [] d = 19 -> "Nineteen"

RefTens(d) ==
    CASE d = 2 -> "Twenty" [] d = 3 -> "Thirty" [] d = 4 -> "Forty"
      [] d = 5 -> "Fifty" [] d = 6 -> "Sixty" [] d = 7 -> "Seventy"
      [] d = 8 -> "Eighty" [] d = 9 -> "Ninety"

\* The words of a group 0..999, without blanks.
RefGroup(g) ==
    LET r == g % 100
    IN  (IF g >= 100 THEN <<RefOnes(g \div 100), "Hundred">> ELSE <<>>) \o
        (IF r = 0 THEN <<>>
         ELSE IF r < 10 THEN <<RefOnes(r)>>
         ELSE IF r < 20 THEN <<RefTeens(r)>>
         ELSE IF r % 10 = 0 THEN <<RefTens(r \div 10)>>
         ELSE <<RefTens(r \div 10), RefOnes(r % 10)>>)

RefScaled(g, scale) == IF g = 0 THEN <<>> ELSE RefGroup(g) \o scale

\* The words joined by single blanks.
RECURSIVE JoinWords(_)
JoinWords(words) ==
    IF Len(words) <= 1 THEN words
    ELSE <<Head(words), " ">> \o JoinWords(Tail(words))

RefNumberToWords(n) ==
    JoinWords(RefScaled(n \div 10000000, <<"Crore">>)
              \o RefScaled((n \div 100000) % 100, <<"Lakh">>)
              \o RefScaled((n \div 1000) % 100, <<"Thousand">>)
              \o RefScaled(n % 1000, <<>>)
              \o <<"Only">>)

\* C14: numberToWords(0) = 'Zero'; for n >= 1 with a crore group of at most
\* 999 the result is the reference conversion: crore, lakh, thousand and
\* units groups in that order, each non-zero group in words followed by its
\* scale word, single blanks between the words and ' Only' at the end.
C14_NumberToWordsReference ==
    Returned("numberToWords") =>
        LET n == callArgs[1]
            words == callResult[1]
        IN  /\ (n = 0) => words = <<"Zero">>
            /\ (n >= 1 /\ n \div 10000000 <= 999) => words = RefNumberToWords(n)
            /\ (n = 100) => words = <<"One", " ", "Hundred", " ", "Only">>
            /\ (n = 150000) =>
                   words = <<"One", " ", "Lakh", " ", "Fifty", " ", "Thousand", " ", "Only">>
            /\ (n = 12345678) =>
                   words = <<"One", " ", "Crore", " ", "Twenty", " ", "Three", " ",
                             "Lakh", " ", "Forty", " ", "Five", " ", "Thousand", " ",
                             "Six", " ", "Hundred", " ", "Seventy", " ", "Eight", " ",
                             "Only">>

C14_Witness ==
    /\ Returned("numberToWords")
    /\ callArgs = <<2132345100>>
    /\ callResult[1] = <<"Two", " ", "Hundred", " ", "Thirteen", " ", "Crore", " ",
                         "Twenty", " ", "Three", " ", "Lakh", " ", "Forty", " ", "Five", " ",
                         "Thousand", " ", "One", " ", "Hundred", " ", "Only">>

----------------------------------------------------------------------------
(* Properties of getStateFromGSTIN (specification SpecGstin) *)

\* C15: getStateFromGSTIN(g) is absent iff g is empty, shorter than two
\* characters or its first two characters are no key of the table (as
\* '25'); otherwise it is the table entry of that prefix and the entry's
\* code is the prefix.  '22AKJPD0941N4Z8' gives Chhattisgarh / '22', '' and
\* '2' give absent.
C15_StateFromGSTIN ==
    Returned("getStateFromGSTIN") =>
        LET g == callArgs[1]
            r == callResult[1]
            prefix == SubSeq(g, 1, 2)
        IN  /\ (r = <<>>) <=>
                   (g = <<>> \/ Len(g) < 2 \/ \A e \in GST_STATE_ENTRIES : e[1] # prefix)
            /\ (r # <<>>) =>
                   /\ \E e \in GST_STATE_ENTRIES :
                          e[1] = prefix /\ r[1] = [state |-> e[2], code |-> e[3]]
                   /\ r[1].code = prefix
            /\ (Len(g) >= 2 /\ prefix = <<"2", "5">>) => r = <<>>
            /\ (g \in {<<>>, <<"2">>}) => r = <<>>
            /\ (g = <<"2", "2", "A", "K", "J", "P", "D", "0", "9", "4", "1", "N", "4",
                       "Z", "8">>) =>
                   r = <<[state |-> "Chhattisgarh", code |-> <<"2", "2">>]>>

C15_Witness ==
    /\ Returned("getStateFromGSTIN")
    /\ callArgs = <<<<"2", "7", "A", "A", "A", "A", "A", "0", "0", "0", "0", "A", "1",
                      "Z", "5">>>>
    /\ callResult = <<<<[state |-> "Maharashtra", code |-> <<"2", "7">>]>>>>

----------------------------------------------------------------------------
(* Properties of formatCurrency (specification SpecCurrency) *)

\* The text is digits and commas only, the commas where the Indian
\* grouping puts them (before the last three digits, then before every two
\* digits), and the digits are those of the whole number n.
IsIndianGrouped(text, n) ==
    /\ text # <<>>
    /\ \A i \in DOMAIN text :
           LET fromRight == Len(text) - i + 1
               commaPlace == fromRight >= 4 /\ (fromRight - 4) % 3 = 0
           IN  IF commaPlace THEN text[i] = "," ELSE text[i] \in Digits
    /\ text[1] # ","
    /\ SelectSeq(text, LAMBDA c : c # ",") = NatText(n)

\* C16: for every numeric amount a, negative and non-integer ones included,
\* formatCurrency(a) is '' when round(a) = 0 and otherwise a text of digits
\* and commas only, in Indian grouping, without decimals.
C16_FormatCurrencyDigitsAndCommas ==
    (callee \in {"formatCurrency", "formatCompactCurrency"}
       /\ callResult # <<>> /\ callArgs[1].type = "number") =>
        LET a == callArgs[1].value
            rounded == MathRound(a[1], a[2])
            text == callResult[1]
        IN  IF rounded = 0 THEN text = <<>>
            ELSE IsIndianGrouped(text, IF rounded < 0 THEN -rounded ELSE rounded)

----------------------------------------------------------------------------
(* Properties of the export actions (specification SpecExport) *)

\* C17: no export is started with an empty item list or an empty name of
\* the billing party: whenever a handler has handed a snapshot to
\* generateInvoicePDF or generateInvoiceExcel, the download confirmed in
\* the preview dialog included, the snapshot has items and a name.
C17_NoExportOfEmptyInvoice ==
    (handler \in {"handleDownloadPDF", "handleDownloadExcel"}) =>
        /\ Len(invoice[1].items) > 0
        /\ invoice[1].billingParty.name # ""

----------------------------------------------------------------------------
(* Properties of generateInvoiceExcel (specification SpecExcel) *)

\* The row with the 0-based index k.
RowAt(rows, k) == rows[k + 1]

\* The labels of the tax rows, in order.
TaxLabels(rows) ==
    LET taxRows == SelectSeq(rows, LAMBDA row : row.kind = "tax")
    IN  [i \in DOMAIN taxRows |-> taxRows[i].cells[9]]

\* C18: the row with index 18 holds the 11 column titles, item i is the row
\* with index 18 + i, and the tax summary after the items is the subtotal
\* row, then the CGST and SGST rows when cgst is non-zero or else the one
\* IGST row, never both, then the grand total row.
C18_ExcelRowLayout ==
    Returned("generateInvoiceExcel") =>
        LET inv == callArgs[1]
            rows == callResult[1]
            n == Len(inv.items)
        IN  /\ RowAt(rows, 18).kind = "titles"
            /\ Len(RowAt(rows, 18).cells) = 11
            /\ \A i \in 1..n :
                   /\ RowAt(rows, 18 + i).kind = "item"
                   /\ RowAt(rows, 18 + i).value = inv.items[i].sno
            /\ \A k \in 0..(Len(rows) - 1) :
                   RowAt(rows, k).kind = "tax" => k > 18 + n
            /\ TaxLabels(rows) =
                   IF inv.cgst # 0
                   THEN <<"Subtotal:", "CGST:", "SGST:", "Grand Total:">>
                   ELSE <<"Subtotal:", "IGST:", "Grand Total:">>

----------------------------------------------------------------------------
(* Properties of the PDF table rows (specification SpecPDF) *)

\* C19: the rows of the PDF table are the item rows in item order followed
\* by exactly six total rows in the order SUB TOTAL, CGST, SGST, IGST,
\* 'Less : PO', GRAND TOTAL, interstate or not; a CGST, SGST or IGST row
\* whose value is zero is present and shows '0'; 'Less : PO' shows '0'.
C19_SixTotalRowsInOrder ==
    TablesSplit =>
        LET inv == pdfInvoice[1]
            n == PdfItemCount
            rows == firstPageData \o remainingData
        IN  /\ Len(rows) = n + 6
            /\ \A i \in 1..n :
                   rows[i].kind = "item" /\ rows[i].value = inv.items[i].sno
            /\ [i \in 1..6 |-> rows[n + i].label] =
                   <<"SUB TOTAL", "Add : CGST @ 9%", "Add : SGST @ 9%",
                     "Add : IGST @ 18%", "Less : PO", "GRAND TOTAL">>
            /\ \A i \in 1..6 : rows[n + i].kind = "total"
            /\ (inv.cgst = 0) => rows[n + 2].text = <<"0">>
            /\ (inv.sgst = 0) => rows[n + 3].text = <<"0">>
            /\ (inv.igst = 0) => rows[n + 4].text = <<"0">>
            /\ rows[n + 5].text = <<"0">>

C19_Witness ==
    /\ pc = "done"
    /\ PdfItemCount = 8
    /\ pdfInvoice[1].igst = 72
    /\ pdfInvoice[1].cgst = 0
    /\ firstPageData[10].label = "Add : CGST @ 9%"
    /\ firstPageData[10].text = <<"0">>
    /\ firstPageData[12].text = <<"7", "2">>
    /\ firstPageData[13].label = "Less : PO"
    /\ remainingData[1].label = "GRAND TOTAL"
    /\ remainingData[1].text = <<"4", "7", "2">>

----------------------------------------------------------------------------
(* Properties of the period configuration (specification SpecPeriod) *)

\* C20: whenever the global start date or the global duration changes,
\* through whichever control, every item afterwards has the period
\* calculatePeriodFromDates(startDate, duration) and the amount
\* calculateAmountFromDuration(its rate, duration).
C20_PeriodAndAmountFollowDates ==
    [][(duration' # duration \/ startDate' # startDate) =>
          \A i \in DOMAIN items' :
             /\ items'[i].period = calculatePeriodFromDates(startDate', duration')
             /\ items'[i].amount =
                    calculateAmountFromDuration(items'[i].ratePM, duration')]_vars

----------------------------------------------------------------------------
(* Properties of the rate input (specification SpecRate) *)

\* C21: whenever updateItem changes the monthly rate of an item to any
\* text, empty and non-numeric ones included, that item's amount afterwards
\* is calculateAmountFromDuration(new rate, duration), and every other item
\* is unchanged.
C21_RateEditRecomputesAmount ==
    [][\A id \in 0..MaxClock, text \in RateEdits :
          UpdateItemRate(id, text) =>
             \A i \in DOMAIN items' :
                IF items[i].id = id
                THEN items'[i].amount = calculateAmountFromDuration(text, duration)
                ELSE items'[i] = items[i]]_vars

----------------------------------------------------------------------------
(* Properties of the billing party (specification SpecParty) *)

\* The state names whose GST code is the first two characters of the text.
ResolvedStates(gstin) ==
    {e[2] : e \in {x \in GST_STATE_ENTRIES :
                      Len(gstin) >= 2 /\ x[1] = <<gstin[1], gstin[2]>>}}

\* C22: updateBillingParty changes the party's state only on a GSTIN edit
\* whose first two characters resolve, and then to the resolved state name;
\* every other edit changes only the edited field, so the state changes
\* only through the state select or a resolving GSTIN edit.
C22_StateFollowsOnlyResolvingGstin ==
    [][/\ \A field \in {"name", "city", "gstin"} :
            \A value \in (IF field = "name" THEN NameInputs
                          ELSE IF field = "city" THEN CityInputs
                          ELSE GstinInputs) :
               UpdateBillingParty(field, value) =>
                  /\ billingParty'[field] = value
                  /\ \A other \in DOMAIN billingParty \ {field, "state"} :
                        billingParty'[other] = billingParty[other]
                  /\ IF field = "gstin" /\ ResolvedStates(value) # {}
                     THEN billingParty'.state \in ResolvedStates(value)
                     ELSE billingParty'.state = billingParty.state
       /\ billingParty'.state # billingParty.state =>
             \/ \E value \in StateInputs : SelectState(value)
             \/ \E value \in GstinInputs :
                   /\ ResolvedStates(value) # {}
                   /\ UpdateBillingParty("gstin", value)]_vars

\* a state chosen in the select is still there after the GSTIN has been
\* typed and other fields edited
C22_Witness ==
    /\ billingParty.gstin = <<"2", "2", "A", "K">>
    /\ billingParty.state = "Delhi"
    /\ billingParty.city = "Raipur"
    /\ billingParty.name = "ACME"

----------------------------------------------------------------------------
(* Properties of calculateAmountFromDuration (specification SpecAmount) *)

\* C23: for an integer rate >= 0 and an integer duration d >= 0 the amount
\* is round(floor(d / 30) * rate + (d mod 30) * rate / 30), which is
\* round(rate * d / 30), and it does not decrease when d grows; the amount
\* is 0 when the rate or the duration is missing or is no number.
C23_AmountIsRoundedProRata ==
    Returned("calculateAmountFromDuration") =>
        LET ratePM == callArgs[1]
            dur == callArgs[2]
            amount == callResult[1]
        IN  IF ratePM \in InvalidTexts \/ dur \in InvalidTexts
            THEN amount = 0
            ELSE LET rate == CHOOSE r \in 0..MaxRate : toString(r) = ratePM
                     d == CHOOSE n \in 0..MaxDuration : toString(n) = dur
                 IN  /\ amount = MathRound((d \div 30) * rate * 30 + (d % 30) * rate, 30)
                     /\ amount = MathRound(rate * d, 30)
                     /\ amount <= calculateAmountFromDuration(ratePM, toString(d + 1))

----------------------------------------------------------------------------
(* Properties of calculatePeriodFromDates (specification SpecPeriodCall) *)

\* The number of the day <<y, m, d>> in the proleptic Gregorian calendar.
DayNumber(date) ==
    LET y == IF date[2] <= 2 THEN date[1] - 1 ELSE date[1]
        m == IF date[2] <= 2 THEN date[2] + 12 ELSE date[2]
    IN  365 * y + (y \div 4) - (y \div 100) + (y \div 400)
            + ((153 * (m - 3) + 2) \div 5) + date[3]

CalendarDays ==
    {<<y, m, d>> \in (2022..2025) \X (1..12) \X (1..31) : d <= DaysInMonth(y, m)}

\* C24: calculatePeriodFromDates(start, d) is '<start> to <end>' with end the
\* calendar day start + (d - 1) days, so end is not before start for
\* d >= 1, across month and year ends; it is '' when the start date or the
\* duration is missing or the duration is no integer.
C24_PeriodIsInclusiveRange ==
    Returned("calculatePeriodFromDates") =>
        LET start == callArgs[1]
            dur == callArgs[2]
            period == callResult[1]
        IN  IF start = <<>> \/ dur \in InvalidTexts
            THEN period = <<>>
            ELSE LET d == CHOOSE n \in 0..MaxDuration : toString(n) = dur
                     end == CHOOSE day \in CalendarDays :
                               DayNumber(day) = DayNumber(start) + d - 1
                 IN  /\ period = <<<<start[3], start[2], start[1]>>,
                                   <<end[3], end[2], end[1]>>>>
                     /\ d >= 1 => DayNumber(end) >= DayNumber(start)

----------------------------------------------------------------------------
(* Idempotence of the derivation (specification SpecIdem) *)

\* The form data after the step.
FormDataAfter ==
    [formData EXCEPT !.items = items', !.duration = duration',
                     !.startDate = startDate']

\* C25: after updateGlobalDateDuration has been applied with the start date
\* or the duration the form already has, or updateItem with the rate an
\* item already has, applying the same operation once more gives the same
\* item list: no drift in amount or period.
C25_DerivationIsIdempotent ==
    [][/\ \A field \in {"startDate", "duration"} :
            UpdateGlobalDateDuration(field, formData[field]) =>
               updateGlobalDateDuration(FormDataAfter, field, formData[field]).items
                  = items'
       /\ \A i \in DOMAIN items :
            UpdateItemRate(items[i].id, items[i].ratePM) =>
               updateItem(FormDataAfter, items[i].id, "ratePM", items[i].ratePM)
                  = items']_vars

\* an item priced from its rate and the 45 days of the form
C25_Witness ==
    /\ Len(items) = 1
    /\ duration = <<"4", "5">>
    /\ startDate = <<2024, 2, 20>>
    /\ \A i \in DOMAIN items :
          /\ items[i].ratePM = <<"3", "0">>
          /\ items[i].amount = 45
          /\ items[i].period # <<>>

----------------------------------------------------------------------------
(* Properties of the terms of the snapshot (specification SpecTerms) *)

\* The positions of the line breaks of a text and, from them, its lines.
LineBreaks(text) == {i \in DOMAIN text : text[i] = "\n"}

LineBreakAt(text, n) ==
    CHOOSE i \in LineBreaks(text) :
        Cardinality({j \in LineBreaks(text) : j < i}) = n - 1

LineOf(text, k) ==
    LET n == Cardinality(LineBreaks(text))
        from == IF k = 1 THEN 1 ELSE LineBreakAt(text, k - 1) + 1
        to == IF k = n + 1 THEN Len(text) ELSE LineBreakAt(text, k) - 1
    IN  SubSeq(text, from, to)

NonBlankLines(text) ==
    {k \in 1..(Cardinality(LineBreaks(text)) + 1) :
        \E i \in DOMAIN LineOf(text, k) : LineOf(text, k)[i] \notin {" ", "\t"}}

\* C26: the termsAndConditions of the snapshot are the lines of the terms
\* field that are not empty and not all white space, each as it was typed,
\* in the order of the field.
C26_TermsAreNonBlankLines ==
    invoice # NoInvoice =>
        LET kept == invoice[1].termsAndConditions
            nonBlank == NonBlankLines(termsAndConditions)
            LineIndex(j) ==
                CHOOSE k \in nonBlank : Cardinality({m \in nonBlank : m < k}) = j - 1
        IN  /\ Len(kept) = Cardinality(nonBlank)
            /\ \A j \in DOMAIN kept : kept[j] = LineOf(termsAndConditions, LineIndex(j))

\* a snapshot of a field with a blank line and a line ending in a blank
C26_Witness ==
    /\ invoice # NoInvoice
    /\ termsAndConditions = <<" ", "\n", "a", " ">>
    /\ invoice[1].termsAndConditions = << <<"a", " ">> >>

----------------------------------------------------------------------------
(* Layout of the PDF tables (specification SpecPDF) *)

RECURSIVE SumOf(_)
SumOf(numbers) ==
    IF numbers = <<>> THEN 0 ELSE Head(numbers) + SumOf(Tail(numbers))

\* C27: the page-width percentages of the 11 columns of every table drawn,
\* the first-page table and the continuation table, sum to exactly 100.
C27_ColumnWidthsSumTo100 ==
    \A t \in DOMAIN tableColumns :
        /\ Len(tableColumns[t]) = 11
        /\ SumOf(tableColumns[t]) = 100

----------------------------------------------------------------------------
(* The amount in words of the summary (specification Spec) *)

\* C28: in every form state the amount in words shown in the summary is the
\* totalInWords of the snapshot generateInvoice produces from that state,
\* and both are numberToWords(round(grandTotal)), also for a grand total
\* of 0.
C28_WordsShownAreWordsExported ==
    LET shown == amountInWords(formData)
        exported == generateInvoice(formData).totalInWords
        grandTotal == calculateTotals(formData).grandTotal
    IN  /\ shown = exported
        /\ exported = numberToWords(MathRound(grandTotal, 1))
        /\ SnapshotTaken => Snapshot.totalInWords = shown

----------------------------------------------------------------------------
(* Identity of the items (specification Spec) *)

\* C29: the items have pairwise distinct ids in every reachable state, also
\* when addItem or copyItem run more than once in one clock tick; so
\* removeItem(id) removes exactly one item and updateItem(id, ...) changes
\* at most one.
C29_ItemIdsAreDistinct ==
    [][/\ \A i, j \in DOMAIN items' : i # j => items'[i].id # items'[j].id
       /\ \A id \in 0..MaxClock :
             RemoveItem(id) => Len(items') = Len(items) - 1
       /\ \A id \in 0..MaxClock, text \in RateTexts :
             UpdateItemRate(id, text) =>
                Cardinality({i \in DOMAIN items : items'[i] # items[i]}) <= 1]_vars

----------------------------------------------------------------------------
(* The due date (specification SpecDue) *)

\* C30: after any sequence of form operations dueDate is '' when the invoice
\* date is empty or creditDays <= 0 and otherwise the invoice date plus
\* creditDays days; only updateInvoiceDate and updateCreditDays change it.
C30_DueDateIsInvoiceDatePlusCredit ==
    /\ [](dueDate =
             IF invoiceDate = <<>> \/ creditDays <= 0 THEN <<>>
             ELSE CHOOSE day \in CalendarDays :
                      DayNumber(day) = DayNumber(invoiceDate) + creditDays)
    /\ [][dueDate' # dueDate =>
             \/ \E date \in InvoiceDates : UpdateInvoiceDate(date)
             \/ \E days \in CreditDaysInputs : UpdateCreditDays(days)]_vars

====
